---- MODULE Spec2Model ----
(***************************************************************************)
(* Model of the aiida_siesta NEB workflows (NEBWorkChain,                  *)
(* SiestaBaseNEBWorkChain, InterstitialBarrierWorkChain,                   *)
(* VacancyExchangeBarrierWorkChain) and of the input checks of             *)
(* SiestaCalculation.prepare_for_submission.                               *)
(*                                                                         *)
(* A work chain runs the steps of its outline in order.  A step that       *)
(* returns ToContext(key=process) registers an awaitable; the engine runs  *)
(* the next step only when every registered awaitable has terminated.  A   *)
(* step that returns an exit code ends the work chain with that code; a    *)
(* step that raises ends it in the excepted state, with no exit code.      *)
(***************************************************************************)
EXTENDS Integers, Sequences, FiniteSets, TLC

VARIABLES
  kind,      \* class of the launched work chain
  inp,       \* its inputs
  pc,        \* outline position of the launched work chain
  ctx,       \* self.ctx of the launched work chain
  awaiting,  \* awaitables registered with ToContext and not yet resolved
  relax,     \* the two SiestaBaseWorkChain sub-processes (initial, final)
  calc,      \* the SiestaCalculation that optimizes the path
  exit,      \* exit code of the launched work chain
  out,       \* its output neb_output_package
  bpc,       \* outline position of the SiestaBaseNEBWorkChain process
  bin,       \* its input starting_path
  bawaiting, \* its awaitables
  bexit,     \* its exit code
  bout,      \* its output neb_output_package
  log,       \* exit codes of the failed runs seen so far by the caller
  bld,       \* state of one call of SiestaCalculation.prepare_for_submission
  geo,       \* state of one call of a function of utils/structures.py
  prs        \* state of one SiestaCalculation whose retrieved files are parsed

vars == <<kind, inp, pc, ctx, awaiting, relax, calc, exit, out,
          bpc, bin, bawaiting, bexit, bout, log, bld, geo, prs>>

wfvars == <<kind, inp, pc, ctx, awaiting, relax, calc, exit, out,
            bpc, bin, bawaiting, bexit, bout, log>>

-----------------------------------------------------------------------------
(* Bounds of the model *)

\* largest value of the n_images input
MaxImages == 3
\* largest number of images of a user-supplied starting path
MaxSteps == 4
\* number of sites of the host structure
NSites == 3

-----------------------------------------------------------------------------
(* Vectors and the host structure *)

Dot(a, b) == a[1] * b[1] + a[2] * b[2] + a[3] * b[3]

Cross(a, b) == << a[2] * b[3] - a[3] * b[2],
                  a[3] * b[1] - a[1] * b[3],
                  a[1] * b[2] - a[2] * b[1] >>

Sub(a, b) == << a[1] - b[1], a[2] - b[2], a[3] - b[3] >>

Add(a, b) == << a[1] + b[1], a[2] + b[2], a[3] + b[3] >>

\* np.matmul(cell, v): the matrix applied to the column vector v
MatMul(m, v) == << Dot(m[1], v), Dot(m[2], v), Dot(m[3], v) >>

\* cell of the host structure used in the runs (a cubic cell)
Cell == << <<2, 0, 0>>, <<0, 2, 0>>, <<0, 0, 2>> >>

\* position of site i (0-based, as in the code) of the host structure
HostPos(i) == << 2 * i, 0, 0 >>

SiteIndexes == 0 .. (NSites - 1)

\* migration directions offered to the vacancy-exchange work chain
Directions == { <<1, 0, 0>>, <<0, 1, 0>>, <<0, 0, 0>>, <<100, 1, 0>> }

\* displacement of the moving atom by the relaxation of the initial structure
Shifts == { <<0, 0, 0>>, <<0, 1, 0>> }

-----------------------------------------------------------------------------
(* Paths *)

\* a structure of a path: the structure s itself (k = 0), or the k-th
\* interior image of the interpolation from a to b
Endpoint(s) == [a |-> s, b |-> s, k |-> 0]

Interior(x, y, j) == [a |-> x, b |-> y, k |-> j]

\* interpolate_two_structures_ase(A, B, n): n + 2 structures, A first, B last
Interpolate(x, y, n) ==
  <<Endpoint(x)>> \o [j \in 1 .. n |-> Interior(x, y, j)] \o <<Endpoint(y)>>

\* orm.TrajectoryData(images_list), with or without the 'kinds' attribute
Path(images, haskinds) == [images |-> images, kinds |-> haskinds]

NoPath == Path(<< >>, FALSE)

\* path.numsteps
numsteps(p) == Len(p.images)

\* a starting path of m images supplied by the caller
UserPath(m, haskinds) == Path([j \in 1 .. m |-> Interior("U", "U", j)], haskinds)

\* the paths a finished SiestaCalculation can report as neb_output_images
OutPaths == { "P1", "P2" }

NoOut == "none"

-----------------------------------------------------------------------------
(* Exit codes declared by the define() of each class *)

ExitCode(label, status) == [label |-> label, status |-> status]

NoExit == ExitCode("none", -1)

Success == ExitCode("ok", 0)

NEB_ERROR_MAIN_WC == ExitCode("ERROR_MAIN_WC", 200)

NEB_ERROR_FINAL_WC == ExitCode("ERROR_FINAL_WC", 201)

B_ERROR_PATH_SPEC == ExitCode("ERROR_PATH_SPEC", 201)

B_ERROR_NEB_CALC == ExitCode("ERROR_NEB_CALC", 201)

IB_ERROR_MAIN_WC == ExitCode("ERROR_MAIN_WC", 200)

IB_ERROR_CONFIG == ExitCode("ERROR_CONFIG", 250)

IB_ERROR_NEB_WK == ExitCode("ERROR_NEB_WK", 300)

VEB_ERROR_MAIN_WC == ExitCode("ERROR_MAIN_WC", 200)

VEB_ERROR_CONFIG == ExitCode("ERROR_CONFIG", 250)

VEB_ERROR_NEB_WK == ExitCode("ERROR_NEB_WK", 300)

-----------------------------------------------------------------------------
(* Inputs *)

Kinds == { "NEB", "BaseNEB", "Interstitial", "Vacancy" }

Input(n, method, migdir, dir, iv, ia, appendok, path) ==
  [n_images |-> n, has_method |-> method, has_migdir |-> migdir,
   migration_direction |-> dir, vacancy_index |-> iv, atom_index |-> ia,
   append_ok |-> appendok, starting_path |-> path]

\* the inputs each class declares; the fields a class does not have are fixed
InputsOf(k) ==
  CASE k = "NEB" ->
         { Input(n, m, FALSE, <<0, 0, 0>>, 0, 0, TRUE, NoPath) :
             n \in 0 .. MaxImages, m \in BOOLEAN }
    [] k = "BaseNEB" ->
         { Input(0, FALSE, FALSE, <<0, 0, 0>>, 0, 0, TRUE, UserPath(m, hk)) :
             m \in 0 .. MaxSteps, hk \in BOOLEAN }
    [] k = "Interstitial" ->
         { Input(n, FALSE, FALSE, <<0, 0, 0>>, 0, 0, ok, NoPath) :
             n \in 0 .. MaxImages, ok \in BOOLEAN }
    [] k = "Vacancy" ->
         { Input(n, FALSE, FALSE, <<0, 0, 0>>, iv, ia, TRUE, NoPath) :
             n \in 0 .. MaxImages, iv \in SiteIndexes, ia \in SiteIndexes }
         \cup
         { Input(n, FALSE, TRUE, dir, iv, ia, TRUE, NoPath) :
             n \in 0 .. MaxImages, dir \in Directions,
             iv \in SiteIndexes, ia \in SiteIndexes }

\* the first step of the outline of each class
FirstStep(k) ==
  CASE k = "NEB" -> "relax_initial"
    [] k = "BaseNEB" -> "delegated"
    [] k = "Interstitial" -> "prepare_structures"
    [] k = "Vacancy" -> "prepare_structures"

NoCtx == [atom_site_index |-> 0, vacancy_position |-> <<0, 0, 0>>, path |-> NoPath]

NoRelax == [state |-> "none", shift |-> <<0, 0, 0>>]

NoCalc == [state |-> "none", images |-> NoPath, result |-> NoOut, by |-> "none"]

BldIdle == [pc |-> "idle"]

GeoIdle == [pc |-> "idle"]

PrsIdle == [pc |-> "idle"]

\* the state of a freshly launched work chain of class k with inputs i
Launched(k, i) ==
  /\ kind' = k
  /\ inp' = i
  /\ pc' = FirstStep(k)
  /\ ctx' = NoCtx
  /\ awaiting' = {}
  /\ relax' = [w \in {"initial", "final"} |-> NoRelax]
  /\ calc' = NoCalc
  /\ exit' = NoExit
  /\ out' = NoOut
  /\ bpc' = IF k = "BaseNEB" THEN "check_input_path" ELSE "none"
  /\ bin' = IF k = "BaseNEB" THEN i.starting_path ELSE NoPath
  /\ bawaiting' = {}
  /\ bexit' = NoExit
  /\ bout' = NoOut

Init ==
  /\ kind \in Kinds
  /\ inp \in InputsOf(kind)
  /\ pc = FirstStep(kind)
  /\ ctx = NoCtx
  /\ awaiting = {}
  /\ relax = [w \in {"initial", "final"} |-> NoRelax]
  /\ calc = NoCalc
  /\ exit = NoExit
  /\ out = NoOut
  /\ bpc = IF kind = "BaseNEB" THEN "check_input_path" ELSE "none"
  /\ bin = IF kind = "BaseNEB" THEN inp.starting_path ELSE NoPath
  /\ bawaiting = {}
  /\ bexit = NoExit
  /\ bout = NoOut
  /\ log = {}
  /\ bld = BldIdle
  /\ geo = GeoIdle
  /\ prs = PrsIdle

-----------------------------------------------------------------------------
(* Engine: termination of a work chain *)

bvars == <<bpc, bin, bawaiting, bexit, bout>>

\* a step of the launched work chain returns the exit code c
Finish(c) == pc' = "finished" /\ exit' = c

\* a step of the launched work chain raises
Except == pc' = "excepted" /\ exit' = NoExit

\* process.is_finished_ok of a SiestaBaseWorkChain or SiestaCalculation
is_finished_ok(p) == p.state = "ok"

\* process.is_finished_ok of the SiestaBaseNEBWorkChain sub-process
b_is_finished_ok == bpc = "finished" /\ bexit.status = 0

\* self.submit(SiestaBaseWorkChain) followed by return ToContext(key=running)
SubmitRelax(w, key, next) ==
  /\ relax' = [relax EXCEPT ![w].state = "running"]
  /\ awaiting' = awaiting \cup {key}
  /\ pc' = next
  /\ UNCHANGED <<kind, inp, ctx, calc, exit, out, bvars, log, bld, geo, prs>>

-----------------------------------------------------------------------------
(* Sub-processes run by the engine *)

\* a SiestaBaseWorkChain terminates, ok (with its relaxed output_structure)
\* or not; the engine resolves the awaitable registered for it
RelaxFinish(w) ==
  /\ relax[w].state = "running"
  /\ \E ok \in BOOLEAN :
       \E s \in (IF ok /\ w = "initial" /\ kind = "Vacancy" THEN Shifts ELSE {<<0, 0, 0>>}) :
         relax' = [relax EXCEPT ![w] = [state |-> IF ok THEN "ok" ELSE "failed", shift |-> s]]
  /\ awaiting' = awaiting \ {IF w = "initial" THEN "initial_relaxation_wk" ELSE "final_relaxation_wk"}
  /\ UNCHANGED <<kind, inp, pc, ctx, calc, exit, out, bvars, log, bld, geo, prs>>

\* the SiestaCalculation terminates, ok (reporting neb_output_images) or not
CalcFinish ==
  /\ calc.state = "running"
  /\ \/ \E r \in OutPaths : calc' = [calc EXCEPT !.state = "ok", !.result = r]
     \/ calc' = [calc EXCEPT !.state = "failed"]
  /\ IF calc.by = "NEB"
       THEN awaiting' = awaiting \ {"neb_wk"} /\ UNCHANGED bawaiting
       ELSE bawaiting' = bawaiting \ {"neb_wk"} /\ UNCHANGED awaiting
  /\ UNCHANGED <<kind, inp, pc, ctx, relax, exit, out, bpc, bin, bexit, bout, log, bld, geo, prs>>

-----------------------------------------------------------------------------
(* NEBWorkChain *)

\* NEB_relax_initial without the return of ToContext: nothing is awaited
NEB_relax_initial_NoToContext ==
  /\ kind = "NEB" /\ pc = "relax_initial" /\ awaiting = {}
  /\ relax' = [relax EXCEPT !["initial"].state = "running"]
  /\ pc' = "relax_final"
  /\ UNCHANGED <<kind, inp, ctx, awaiting, calc, exit, out, bvars, log, bld, geo, prs>>

NEB_relax_initial ==
  /\ kind = "NEB" /\ pc = "relax_initial" /\ awaiting = {}
  /\ SubmitRelax("initial", "initial_relaxation_wk", "relax_final")

NEB_relax_final ==
  /\ kind = "NEB" /\ pc = "relax_final" /\ awaiting = {}
  /\ SubmitRelax("final", "final_relaxation_wk", "generate_starting_path")

\* NEB_generate_starting_path without the check of the final relaxation
NEB_generate_starting_path_NoFinalCheck ==
  /\ kind = "NEB" /\ pc = "generate_starting_path" /\ awaiting = {}
  /\ IF ~is_finished_ok(relax["initial"])
       THEN Finish(NEB_ERROR_MAIN_WC) /\ UNCHANGED ctx
       ELSE IF ~inp.has_method
         THEN Except /\ UNCHANGED ctx
         ELSE /\ ctx' = [ctx EXCEPT !.path = Path(Interpolate("I", "F", inp.n_images), FALSE)]
              /\ pc' = "run_neb"
              /\ UNCHANGED exit
  /\ UNCHANGED <<kind, inp, awaiting, relax, calc, out, bvars, log, bld, geo, prs>>

NEB_generate_starting_path ==
  /\ kind = "NEB" /\ pc = "generate_starting_path" /\ awaiting = {}
  /\ IF ~is_finished_ok(relax["initial"])
       THEN Finish(NEB_ERROR_MAIN_WC) /\ UNCHANGED ctx
       ELSE IF ~is_finished_ok(relax["final"])
         THEN Finish(NEB_ERROR_MAIN_WC) /\ UNCHANGED ctx
         ELSE IF ~inp.has_method
           \* images_list is assigned in the else branch only
           THEN Except /\ UNCHANGED ctx
           ELSE /\ ctx' = [ctx EXCEPT !.path = Path(Interpolate("I", "F", inp.n_images), FALSE)]
                /\ pc' = "run_neb"
                /\ UNCHANGED exit
  /\ UNCHANGED <<kind, inp, awaiting, relax, calc, out, bvars, log, bld, geo, prs>>

NEB_run_neb ==
  /\ kind = "NEB" /\ pc = "run_neb" /\ awaiting = {}
  /\ calc' = [state |-> "running", images |-> ctx.path, result |-> NoOut, by |-> "NEB"]
  /\ awaiting' = awaiting \cup {"neb_wk"}
  /\ pc' = "run_results"
  /\ UNCHANGED <<kind, inp, ctx, relax, exit, out, bvars, log, bld, geo, prs>>

\* NEB_run_results without the call of self.out
NEB_run_results_NoOut ==
  /\ kind = "NEB" /\ pc = "run_results" /\ awaiting = {}
  /\ IF ~is_finished_ok(calc)
       THEN Finish(NEB_ERROR_FINAL_WC)
       ELSE Finish(Success)
  /\ UNCHANGED <<kind, inp, ctx, awaiting, relax, calc, out, bvars, log, bld, geo, prs>>

NEB_run_results ==
  /\ kind = "NEB" /\ pc = "run_results" /\ awaiting = {}
  /\ IF ~is_finished_ok(calc)
       THEN Finish(NEB_ERROR_FINAL_WC) /\ UNCHANGED out
       ELSE out' = calc.result /\ Finish(Success)
  /\ UNCHANGED <<kind, inp, ctx, awaiting, relax, calc, bvars, log, bld, geo, prs>>

-----------------------------------------------------------------------------
(* SiestaBaseNEBWorkChain, launched by the caller or as the sub-process    *)
(* neb_wk of a barrier work chain                                          *)

\* a step of the SiestaBaseNEBWorkChain returns the exit code c (or it has run
\* its last step); a parent waiting for it has its awaitable resolved
BFinish(c) ==
  /\ bpc' = "finished"
  /\ bexit' = c
  /\ awaiting' = awaiting \ {"neb_wk"}

\* B_check_input_path without the rejection of a path of two images
B_check_input_path_TwoAccepted ==
  /\ bpc = "check_input_path"
  /\ IF numsteps(bin) = 0
       THEN BFinish(B_ERROR_PATH_SPEC)
       ELSE IF numsteps(bin) = 1
         THEN BFinish(B_ERROR_PATH_SPEC)
         ELSE IF ~bin.kinds
           THEN BFinish(B_ERROR_PATH_SPEC)
           ELSE bpc' = "run_neb" /\ UNCHANGED <<bexit, awaiting>>
  /\ UNCHANGED <<kind, inp, pc, ctx, relax, calc, exit, out, bin, bawaiting, bout, log, bld, geo, prs>>

B_check_input_path ==
  /\ bpc = "check_input_path"
  /\ IF numsteps(bin) = 0
       THEN BFinish(B_ERROR_PATH_SPEC)
       ELSE IF numsteps(bin) = 1
         THEN BFinish(B_ERROR_PATH_SPEC)
         ELSE IF numsteps(bin) = 2
           THEN BFinish(B_ERROR_PATH_SPEC)
           ELSE IF ~bin.kinds
             THEN BFinish(B_ERROR_PATH_SPEC)
             ELSE bpc' = "run_neb" /\ UNCHANGED <<bexit, awaiting>>
  /\ UNCHANGED <<kind, inp, pc, ctx, relax, calc, exit, out, bin, bawaiting, bout, log, bld, geo, prs>>

B_run_neb ==
  /\ bpc = "run_neb" /\ bawaiting = {}
  /\ calc' = [state |-> "running", images |-> bin, result |-> NoOut, by |-> "BaseNEB"]
  /\ bawaiting' = bawaiting \cup {"neb_wk"}
  /\ bpc' = "run_results"
  /\ UNCHANGED <<kind, inp, pc, ctx, awaiting, relax, exit, out, bin, bexit, bout, log, bld, geo, prs>>

B_run_results ==
  /\ bpc = "run_results" /\ bawaiting = {}
  /\ IF ~is_finished_ok(calc)
       THEN BFinish(B_ERROR_NEB_CALC) /\ UNCHANGED bout
       ELSE bout' = calc.result /\ BFinish(Success)
  /\ UNCHANGED <<kind, inp, pc, ctx, relax, calc, exit, out, bin, bawaiting, log, bld, geo, prs>>

-----------------------------------------------------------------------------
(* InterstitialBarrierWorkChain *)

IB_prepare_structures ==
  /\ kind = "Interstitial" /\ pc = "prepare_structures" /\ awaiting = {}
  /\ IF inp.append_ok
       THEN pc' = "relax_initial" /\ UNCHANGED exit
       \* append_atom raised
       ELSE Finish(IB_ERROR_CONFIG)
  /\ UNCHANGED <<kind, inp, ctx, awaiting, relax, calc, out, bvars, log, bld, geo, prs>>

IB_relax_initial ==
  /\ kind = "Interstitial" /\ pc = "relax_initial" /\ awaiting = {}
  /\ SubmitRelax("initial", "initial_relaxation_wk", "relax_final")

IB_relax_final ==
  /\ kind = "Interstitial" /\ pc = "relax_final" /\ awaiting = {}
  /\ SubmitRelax("final", "final_relaxation_wk", "prepare_initial_path")

\* IB_prepare_initial_path without the check of the initial relaxation
IB_prepare_initial_path_NoInitialCheck ==
  /\ kind = "Interstitial" /\ pc = "prepare_initial_path" /\ awaiting = {}
  /\ IF ~is_finished_ok(relax["final"])
       THEN Finish(IB_ERROR_MAIN_WC) /\ UNCHANGED ctx
       ELSE /\ ctx' = [ctx EXCEPT !.path = Path(Interpolate("I", "F", inp.n_images), TRUE)]
            /\ pc' = "run_NEB_workchain"
            /\ UNCHANGED exit
  /\ UNCHANGED <<kind, inp, awaiting, relax, calc, out, bvars, log, bld, geo, prs>>

IB_prepare_initial_path ==
  /\ kind = "Interstitial" /\ pc = "prepare_initial_path" /\ awaiting = {}
  /\ IF ~is_finished_ok(relax["initial"])
       THEN Finish(IB_ERROR_MAIN_WC) /\ UNCHANGED ctx
       ELSE IF ~is_finished_ok(relax["final"])
         THEN Finish(IB_ERROR_MAIN_WC) /\ UNCHANGED ctx
         ELSE /\ ctx' = [ctx EXCEPT !.path = Path(Interpolate("I", "F", inp.n_images), TRUE)]
              /\ pc' = "run_NEB_workchain"
              /\ UNCHANGED exit
  /\ UNCHANGED <<kind, inp, awaiting, relax, calc, out, bvars, log, bld, geo, prs>>

IB_run_NEB_workchain ==
  /\ kind = "Interstitial" /\ pc = "run_NEB_workchain" /\ awaiting = {}
  /\ bpc' = "check_input_path"
  /\ bin' = ctx.path
  /\ awaiting' = awaiting \cup {"neb_wk"}
  /\ pc' = "check_results"
  /\ UNCHANGED <<kind, inp, ctx, relax, calc, exit, out, bawaiting, bexit, bout, log, bld, geo, prs>>

IB_check_results ==
  /\ kind = "Interstitial" /\ pc = "check_results" /\ awaiting = {}
  /\ IF ~b_is_finished_ok
       THEN Finish(IB_ERROR_NEB_WK) /\ UNCHANGED out
       ELSE out' = bout /\ Finish(Success)
  /\ UNCHANGED <<kind, inp, ctx, awaiting, relax, calc, bvars, log, bld, geo, prs>>

-----------------------------------------------------------------------------
(* Geometric path utilities *)

\* find_mid_path_position(s, pos1, pos2, migration_direction), up to the
\* coordinates of the point: "None" when the direction is near parallel to the
\* line pos1-pos2, i.e. |d x c| / (|c| |d|) < 1.0e-2, compared here on the
\* squares; "NaN" when |c| |d| = 0, where the quotient is 0/0 and the
\* comparison is false; "Point" otherwise
find_mid_path_position(pos1, pos2, migration_direction) ==
  LET cart_direction == MatMul(Cell, migration_direction)
      d == Sub(pos2, pos1)
      cross_product == Cross(d, cart_direction)
      xx == Dot(cross_product, cross_product)
      nn == Dot(cart_direction, cart_direction) * Dot(d, d)
  IN  IF nn = 0
        THEN "NaN"
        ELSE IF xx <= (nn - 1) \div 10000
          THEN "None"
          ELSE "Point"

\* position of site j of the initial structure built by prepare_structures:
\* the host with the site vacancy_index removed
InitialSitePos(iv, j) == HostPos(IF j < iv THEN j ELSE j + 1)

-----------------------------------------------------------------------------
(* VacancyExchangeBarrierWorkChain *)

VEB_prepare_structures ==
  /\ kind = "Vacancy" /\ pc = "prepare_structures" /\ awaiting = {}
  /\ IF inp.vacancy_index = inp.atom_index
       \* the atom site was popped from the list: new_sites.index raises
       THEN Except /\ UNCHANGED ctx
       ELSE /\ ctx' = [ctx EXCEPT
                 !.atom_site_index = IF inp.atom_index < inp.vacancy_index
                                       THEN inp.atom_index
                                       ELSE inp.atom_index - 1,
                 !.vacancy_position = HostPos(inp.vacancy_index)]
            /\ pc' = "relax_initial"
            /\ UNCHANGED exit
  /\ UNCHANGED <<kind, inp, awaiting, relax, calc, out, bvars, log, bld, geo, prs>>

VEB_relax_initial ==
  /\ kind = "Vacancy" /\ pc = "relax_initial" /\ awaiting = {}
  /\ SubmitRelax("initial", "initial_relaxation_wk", "relax_final")

VEB_relax_final ==
  /\ kind = "Vacancy" /\ pc = "relax_final" /\ awaiting = {}
  /\ SubmitRelax("final", "final_relaxation_wk", "prepare_initial_path")

\* the two legs joined without removing the duplicate central point
TwoLegImages_Duplicate(n_images) ==
  Interpolate("I", "M", n_images \div 2) \o Interpolate("M", "F", n_images \div 2)

\* the images_list of the two-leg branch: first_list[:-1] + second_list
TwoLegImages(n_images) ==
  LET first_list == Interpolate("I", "M", n_images \div 2)
      second_list == Interpolate("M", "F", n_images \div 2)
  IN  SubSeq(first_list, 1, Len(first_list) - 1) \o second_list

VEB_prepare_initial_path ==
  /\ kind = "Vacancy" /\ pc = "prepare_initial_path" /\ awaiting = {}
  /\ IF ~is_finished_ok(relax["initial"])
       THEN Finish(VEB_ERROR_MAIN_WC) /\ UNCHANGED ctx
       ELSE IF ~is_finished_ok(relax["final"])
         THEN Finish(VEB_ERROR_MAIN_WC) /\ UNCHANGED ctx
         ELSE IF inp.has_migdir
           THEN LET pos1 == Add(InitialSitePos(inp.vacancy_index, ctx.atom_site_index),
                                relax["initial"].shift)
                    pos2 == ctx.vacancy_position
                    atom_mid_path_position ==
                      find_mid_path_position(pos1, pos2, inp.migration_direction)
                    images_list == TwoLegImages(inp.n_images)
                IN  IF atom_mid_path_position = "None"
                      \* find_intermediate_structure builds a Site at position None
                      THEN Except /\ UNCHANGED ctx
                      ELSE IF Len(images_list) # inp.n_images + 2
                        THEN Finish(VEB_ERROR_CONFIG) /\ UNCHANGED ctx
                        ELSE /\ ctx' = [ctx EXCEPT !.path = Path(images_list, TRUE)]
                             /\ pc' = "run_NEB_workchain"
                             /\ UNCHANGED exit
           ELSE /\ ctx' = [ctx EXCEPT !.path = Path(Interpolate("I", "F", inp.n_images), TRUE)]
                /\ pc' = "run_NEB_workchain"
                /\ UNCHANGED exit
  /\ UNCHANGED <<kind, inp, awaiting, relax, calc, out, bvars, log, bld, geo, prs>>

VEB_run_NEB_workchain ==
  /\ kind = "Vacancy" /\ pc = "run_NEB_workchain" /\ awaiting = {}
  /\ bpc' = "check_input_path"
  /\ bin' = ctx.path
  /\ awaiting' = awaiting \cup {"neb_wk"}
  /\ pc' = "check_results"
  /\ UNCHANGED <<kind, inp, ctx, relax, calc, exit, out, bawaiting, bexit, bout, log, bld, geo, prs>>

VEB_check_results ==
  /\ kind = "Vacancy" /\ pc = "check_results" /\ awaiting = {}
  /\ IF ~b_is_finished_ok
       THEN Finish(VEB_ERROR_NEB_WK) /\ UNCHANGED out
       ELSE out' = bout /\ Finish(Success)
  /\ UNCHANGED <<kind, inp, ctx, awaiting, relax, calc, bvars, log, bld, geo, prs>>

-----------------------------------------------------------------------------
(* The caller *)

\* the launched work chain has terminated (finished or excepted)
WfTerminated ==
  IF kind = "BaseNEB" THEN bpc = "finished" ELSE pc \in {"finished", "excepted"}

\* its exit code
WfExit == IF kind = "BaseNEB" THEN bexit ELSE exit

\* its output neb_output_package
WfOut == IF kind = "BaseNEB" THEN bout ELSE out

\* the caller notes the exit code of a failed run, when it has not seen that
\* code before, and launches the same class again with inputs of its choice
Relaunch ==
  /\ WfTerminated
  /\ WfExit.status > 0
  /\ WfExit \notin log
  /\ log' = log \cup {WfExit}
  /\ \E i \in InputsOf(kind) : Launched(kind, i)
  /\ UNCHANGED <<bld, geo, prs>>

Next ==
  \/ NEB_relax_initial
  \/ NEB_relax_final
  \/ NEB_generate_starting_path
  \/ NEB_run_neb
  \/ NEB_run_results
  \/ B_check_input_path
  \/ B_run_neb
  \/ B_run_results
  \/ IB_prepare_structures
  \/ IB_relax_initial
  \/ IB_relax_final
  \/ IB_prepare_initial_path
  \/ IB_run_NEB_workchain
  \/ IB_check_results
  \/ VEB_prepare_structures
  \/ VEB_relax_initial
  \/ VEB_relax_final
  \/ VEB_prepare_initial_path
  \/ VEB_run_NEB_workchain
  \/ VEB_check_results
  \/ RelaxFinish("initial")
  \/ RelaxFinish("final")
  \/ CalcFinish
  \/ Relaunch

Spec == Init /\ [][Next]_vars

-----------------------------------------------------------------------------
(* Properties of the work chains *)

Composite == {"NEB", "Interstitial", "Vacancy"}

\* the step of the outline that builds the starting path
PathStep == IF kind = "NEB" THEN "generate_starting_path" ELSE "prepare_initial_path"

RelaxFailed(w) == relax[w].state = "failed"

RelaxTerminated(w) == relax[w].state \in {"ok", "failed"}

\* the path-optimization sub-job of the launched work chain has been submitted
PathOptSubmitted == IF kind \in {"NEB", "BaseNEB"} THEN calc.state # "none" ELSE bpc # "none"

\* it has finished ok
PathOptOk == IF kind \in {"NEB", "BaseNEB"} THEN is_finished_ok(calc) ELSE b_is_finished_ok

\* it has finished with non-success
PathOptFailed ==
  IF kind \in {"NEB", "BaseNEB"}
    THEN calc.state = "failed"
    ELSE bpc = "finished" /\ bexit.status # 0

\* the path it reported
PathOptReported == IF kind \in {"NEB", "BaseNEB"} THEN calc.result ELSE bout

\* C1: in the three work chains that relax end-points, the path optimization
\* is submitted only when both relaxations have finished ok; once a relaxation
\* has failed the path optimization is never submitted, and when the work
\* chain has terminated it has done so with ERROR_MAIN_WC (200).
C1_EndpointGate ==
  kind \in Composite =>
    /\ PathOptSubmitted =>
         is_finished_ok(relax["initial"]) /\ is_finished_ok(relax["final"])
    /\ (RelaxFailed("initial") \/ RelaxFailed("final")) =>
         /\ ~PathOptSubmitted
         /\ calc.state = "none"
         /\ pc \in {"relax_final", PathStep, "finished"}
         /\ pc = "finished" => exit.label = "ERROR_MAIN_WC" /\ exit.status = 200

C1_Witness ==
  /\ kind = "Interstitial" /\ pc = "finished" /\ exit = IB_ERROR_MAIN_WC
  /\ is_finished_ok(relax["initial"]) /\ RelaxFailed("final")

\* C2 as stated: whenever the work chain waits for the result of the initial
\* relaxation, the final relaxation has been submitted too.
C2_BothSubmittedBeforeWaiting ==
  (kind \in Composite /\ "initial_relaxation_wk" \in awaiting) =>
    relax["final"].state # "none"

\* C2 as amended: the two relaxations run one after the other.  The final
\* relaxation is submitted only when the initial one has terminated, so the two
\* are never in flight together, and the work chain goes past the step that
\* builds the path only when both have terminated.
C2_SequentialRelaxations ==
  kind \in Composite =>
    /\ ~(relax["initial"].state = "running" /\ relax["final"].state = "running")
    /\ relax["final"].state # "none" => RelaxTerminated("initial")
    /\ (relax["final"].state # "none" /\ pc # PathStep) => RelaxTerminated("final")
    /\ relax["initial"].state = "running" => awaiting = {"initial_relaxation_wk"}
    /\ relax["final"].state = "running" => awaiting = {"final_relaxation_wk"}

C2_Witness ==
  /\ kind = "NEB" /\ relax["final"].state = "running"
  /\ is_finished_ok(relax["initial"]) /\ pc = "generate_starting_path"

\* a sub-job of the launched work chain has finished with non-success
SubJobFailed == RelaxFailed("initial") \/ RelaxFailed("final") \/ PathOptFailed

\* this step submits the relaxation w
SubmitsRelax(w) == relax[w].state = "none" /\ relax'[w].state = "running"

\* this step submits a path optimization (the sub-work-chain or the calculation)
SubmitsPathOpt ==
  \/ kind \in Composite /\ bpc = "none" /\ bpc' # "none"
  \/ calc.state = "none" /\ calc'.state = "running"

\* C3 as stated: once a sub-job has finished with non-success, no step submits
\* a sub-job.
C3_NoSubmissionAfterFailure ==
  [][SubJobFailed => ~(SubmitsRelax("initial") \/ SubmitsRelax("final") \/ SubmitsPathOpt)]_vars

\* C3 as amended: once a sub-job has finished with non-success no path
\* optimization is submitted; the only sub-job still submitted is the final
\* end-point relaxation, after a failed initial relaxation.
C3_OnlyFinalRelaxationAfterFailure ==
  [][SubJobFailed =>
       /\ ~SubmitsPathOpt
       /\ ~SubmitsRelax("initial")
       /\ SubmitsRelax("final") => RelaxFailed("initial") /\ pc = "relax_final"]_vars

C3_Witness ==
  /\ kind = "Vacancy" /\ RelaxFailed("initial") /\ relax["final"].state = "running"

\* the exit codes of failed runs the caller has seen, the current one included
SeenExits == log \cup (IF WfTerminated /\ WfExit.status > 0 THEN {WfExit} ELSE {})

\* C4: two failed runs of one work chain class that end with the same exit
\* status failed for the same cause (the same exit code label).
C4_DistinctExitStatuses ==
  \A e1 \in SeenExits : \A e2 \in SeenExits :
    e1.status = e2.status => e1.label = e2.label

\* C5: SiestaBaseNEBWorkChain submits its calculation only for a starting path
\* of at least 3 images that carries the 'kinds' attribute, and it submits that
\* path; for any other path it ends with ERROR_PATH_SPEC and submits nothing.
C5_PathSpecGate ==
  /\ (calc.by = "BaseNEB" /\ calc.state # "none") =>
       numsteps(bin) >= 3 /\ bin.kinds /\ calc.images = bin
  /\ (bpc \notin {"none", "check_input_path"} /\ (numsteps(bin) < 3 \/ ~bin.kinds)) =>
       bpc = "finished" /\ bexit = B_ERROR_PATH_SPEC /\ calc.state = "none"

C5_Witness ==
  /\ bpc = "finished" /\ bexit.label = "ERROR_PATH_SPEC"
  /\ numsteps(bin) = 2 /\ bin.kinds /\ calc.state = "none"

\* C6: every submitted path-optimization calculation carries a path of at
\* least 3 images.
C6_SubmittedPathHasThreeImages ==
  calc.state # "none" => numsteps(calc.images) >= 3

\* number of occurrences of the structure x in the sequence of images
RECURSIVE Count(_, _)
Count(images, x) ==
  IF images = << >>
    THEN 0
    ELSE (IF Head(images) = x THEN 1 ELSE 0) + Count(Tail(images), x)

\* C7: with a migration direction, the path VacancyExchangeBarrierWorkChain
\* hands to the NEB sub-work-chain has n_images + 2 images, from the initial to
\* the final structure, with the intermediate structure exactly once; that
\* happens for odd n_images only, and for even n_images the two legs give a
\* different count and the work chain ends with ERROR_CONFIG (250) without
\* submitting the sub-work-chain.
C7_TwoLegPath ==
  (kind = "Vacancy" /\ inp.has_migdir) =>
    /\ bpc # "none" =>
         /\ bin = ctx.path
         /\ numsteps(bin) = inp.n_images + 2
         /\ Count(bin.images, Endpoint("M")) = 1
         /\ bin.images[1] = Endpoint("I")
         /\ bin.images[numsteps(bin)] = Endpoint("F")
         /\ inp.n_images % 2 = 1
    /\ ( /\ is_finished_ok(relax["initial"]) /\ is_finished_ok(relax["final"])
         /\ pc \notin {"prepare_initial_path", "excepted"}
         /\ inp.n_images % 2 = 0 ) =>
         pc = "finished" /\ exit = VEB_ERROR_CONFIG /\ bpc = "none"
    /\ exit.label = "ERROR_CONFIG" =>
         /\ exit.status = 250
         /\ inp.n_images % 2 = 0
         /\ Len(TwoLegImages(inp.n_images)) # inp.n_images + 2

C7_Witness ==
  /\ kind = "Vacancy" /\ inp.has_migdir /\ inp.n_images = 3
  /\ bpc # "none" /\ numsteps(bin) = 5

C7_WitnessConfig ==
  /\ kind = "Vacancy" /\ inp.has_migdir /\ inp.n_images = 2
  /\ pc = "finished" /\ exit = VEB_ERROR_CONFIG

\* the migration direction is degenerate for the atom and the vacancy of the
\* host structure
DegenerateDirection ==
  /\ kind = "Vacancy" /\ inp.has_migdir /\ inp.vacancy_index # inp.atom_index
  /\ find_mid_path_position(HostPos(inp.atom_index), HostPos(inp.vacancy_index),
                            inp.migration_direction) = "None"

\* C8: with a degenerate migration direction VacancyExchangeBarrierWorkChain
\* submits no sub-job.
C8_DegenerateRejectedBeforeSubmission ==
  DegenerateDirection =>
    relax["initial"].state = "none" /\ relax["final"].state = "none" /\ bpc = "none"

\* C9: the output neb_output_package is emitted only when the path-optimization
\* sub-job has finished ok, and it is the path that sub-job reported (for a
\* barrier work chain, the path of the calculation of its sub-work-chain); a
\* terminated work chain whose sub-job finished ok has emitted it, and one
\* that failed or excepted has emitted nothing.
C9_OutputIffPathOptOk ==
  /\ WfOut # NoOut => PathOptOk /\ WfOut = PathOptReported /\ WfOut = calc.result
  /\ (WfTerminated /\ PathOptOk) => WfOut # NoOut /\ WfExit = Success
  /\ (WfTerminated /\ WfExit.status # 0) => WfOut = NoOut

C9_Witness ==
  /\ kind = "Vacancy" /\ pc = "finished" /\ exit = Success
  /\ out = "P2" /\ bout = "P2" /\ calc.result = "P2"

-----------------------------------------------------------------------------
(* SiestaCalculation.prepare_for_submission: character strings and FDFDict *)

\* largest number of sites of the input structure
MaxSites == 2
\* largest number of entries of the floating_orbitals list
MaxFloating == 2
\* largest number of k-points of the bandskpoints input
MaxKpts == 6

SeqsUpTo(S, n) == UNION { [1 .. m -> S] : m \in 0 .. n }

Range(seq) == { seq[j] : j \in 1 .. Len(seq) }

\* a Python string that the code takes apart is the sequence of its characters
ascii ==
  [lowercase |-> <<"a", "b", "c", "d", "e", "f", "g", "h", "i", "j", "k", "l", "m",
                   "n", "o", "p", "q", "r", "s", "t", "u", "v", "w", "x", "y", "z">>,
   uppercase |-> <<"A", "B", "C", "D", "E", "F", "G", "H", "I", "J", "K", "L", "M",
                   "N", "O", "P", "Q", "R", "S", "T", "U", "V", "W", "X", "Y", "Z">>,
   digits |-> <<"0", "1", "2", "3", "4", "5", "6", "7", "8", "9">>]

\* code point of the alphanumeric characters, the order sorted() compares by
codepoint ==
  [c \in Range(ascii.digits) \cup Range(ascii.uppercase) \cup Range(ascii.lowercase) |->
     IF c \in Range(ascii.digits)
       THEN 47 + (CHOOSE j \in 1 .. 10 : ascii.digits[j] = c)
     ELSE IF c \in Range(ascii.uppercase)
       THEN 64 + (CHOOSE j \in 1 .. 26 : ascii.uppercase[j] = c)
     ELSE 96 + (CHOOSE j \in 1 .. 26 : ascii.lowercase[j] = c)]

\* the alphanumeric characters in lower and in upper case
casemap ==
  [lower |-> [c \in DOMAIN codepoint |->
                IF c \in Range(ascii.uppercase)
                  THEN ascii.lowercase[codepoint[c] - 64] ELSE c],
   upper |-> [c \in DOMAIN codepoint |->
                IF c \in Range(ascii.lowercase)
                  THEN ascii.uppercase[codepoint[c] - 96] ELSE c]]

\* str.lower and str.upper on one character
lower(c) == IF c \in DOMAIN codepoint THEN casemap.lower[c] ELSE c
upper(c) == IF c \in DOMAIN codepoint THEN casemap.upper[c] ELSE c

\* FDFDict.translate_key: the key in lower case without its separators
RECURSIVE translate_key(_)
translate_key(key) ==
  IF key = << >>
    THEN << >>
    ELSE LET c == Head(key)
             rest == translate_key(Tail(key))
         IN  IF c \in DOMAIN codepoint THEN << lower(c) >> \o rest ELSE rest

\* FDFDict.update with one item: the storage holds, for each translated key,
\* the value and the key as it was last written
FDFDict_update(storage, key, value) ==
  LET tk == translate_key(key)
      entry == [key |-> tk, value |-> value, last |-> key]
  IN  IF \E j \in 1 .. Len(storage) : storage[j].key = tk
        THEN [j \in 1 .. Len(storage) |->
                IF storage[j].key = tk THEN entry ELSE storage[j]]
        ELSE Append(storage, entry)

\* FDFDict(dict): the items of the dictionary are set one after the other
RECURSIVE FDFDict(_)
FDFDict(items) ==
  IF items = << >>
    THEN << >>
    ELSE LET item == items[Len(items)]
         IN  FDFDict_update(FDFDict(SubSeq(items, 1, Len(items) - 1)),
                            item.key, item.value)

get_last_untranslated_key(storage, key) ==
  (CHOOSE e \in Range(storage) : e.key = translate_key(key)).last

\* FDFDict.get_filtered_items: the pairs (translated key, value)
get_filtered_items(storage) ==
  [j \in 1 .. Len(storage) |-> [key |-> storage[j].key, value |-> storage[j].value]]

\* a < b for two strings of alphanumeric characters, as Python compares them
RECURSIVE StrLess(_, _)
StrLess(a, b) ==
  IF b = << >> THEN FALSE
  ELSE IF a = << >> THEN TRUE
  ELSE IF Head(a) = Head(b) THEN StrLess(Tail(a), Tail(b))
  ELSE codepoint[Head(a)] < codepoint[Head(b)]

\* sorted(items) for items with distinct keys
RECURSIVE sorted(_)
sorted(items) ==
  IF items = << >>
    THEN << >>
    ELSE LET rest == sorted(Tail(items))
             x == Head(items)
             before == Cardinality({ j \in 1 .. Len(rest) : StrLess(rest[j].key, x.key) })
         IN  SubSeq(rest, 1, before) \o << x >> \o SubSeq(rest, before + 1, Len(rest))

\* "pao" in key
pao_in(key) ==
  \E j \in 1 .. Len(key) - 2 : SubSeq(key, j, j + 2) = <<"p", "a", "o">>

-----------------------------------------------------------------------------
(* SiestaCalculation.prepare_for_submission: keywords and inputs *)

\* the keywords of the input file that the code and the runs name
kw ==
  [system_name |-> <<"s", "y", "s", "t", "e", "m", "-", "n", "a", "m", "e">>,
   system_label |-> <<"s", "y", "s", "t", "e", "m", "-", "l", "a", "b", "e", "l">>,
   number_of_species |->
     <<"n", "u", "m", "b", "e", "r", "-", "o", "f", "-", "s", "p", "e", "c", "i", "e", "s">>,
   number_of_atoms |->
     <<"n", "u", "m", "b", "e", "r", "-", "o", "f", "-", "a", "t", "o", "m", "s">>,
   lattice_constant |->
     <<"l", "a", "t", "t", "i", "c", "e", "-", "c", "o", "n", "s", "t", "a", "n", "t">>,
   atomic_coordinates_format |->
     <<"a", "t", "o", "m", "i", "c", "-", "c", "o", "o", "r", "d", "i", "n", "a", "t", "e",
       "s", "-", "f", "o", "r", "m", "a", "t">>,
   use_tree_timer |-> <<"u", "s", "e", "-", "t", "r", "e", "e", "-", "t", "i", "m", "e", "r">>,
   xml_write |-> <<"x", "m", "l", "-", "w", "r", "i", "t", "e">>,
   dm_use_save_dm |-> <<"d", "m", "-", "u", "s", "e", "-", "s", "a", "v", "e", "-", "d", "m">>,
   geometry_must_converge |->
     <<"g", "e", "o", "m", "e", "t", "r", "y", "-", "m", "u", "s", "t", "-",
       "c", "o", "n", "v", "e", "r", "g", "e">>,
   md_variable_cell |->
     <<"m", "d", "-", "v", "a", "r", "i", "a", "b", "l", "e", "-", "c", "e", "l", "l">>,
   md_constant_volume |->
     <<"m", "d", "-", "c", "o", "n", "s", "t", "a", "n", "t", "-", "v", "o", "l", "u", "m", "e">>,
   md_relax_cell_only |->
     <<"m", "d", "-", "r", "e", "l", "a", "x", "-", "c", "e", "l", "l", "-", "o", "n", "l", "y">>,
   md_type_of_run |-> <<"m", "d", "-", "t", "y", "p", "e", "-", "o", "f", "-", "r", "u", "n">>,
   lua_script |-> <<"l", "u", "a", "-", "s", "c", "r", "i", "p", "t">>,
   pao_basis_size |-> <<"p", "a", "o", "-", "b", "a", "s", "i", "s", "-", "s", "i", "z", "e">>,
   pao_energy_shift |->
     <<"p", "a", "o", "-", "e", "n", "e", "r", "g", "y", "-", "s", "h", "i", "f", "t">>,
   mesh_cutoff |-> <<"m", "e", "s", "h", "-", "c", "u", "t", "o", "f", "f">>,
   max_walltime |-> <<"m", "a", "x", ".", "w", "a", "l", "l", "t", "i", "m", "e">>,
   BandLinesScale |-> <<"B", "a", "n", "d", "L", "i", "n", "e", "s", "S", "c", "a", "l", "e">>]

\* the words written as values by the code and by the caller
word ==
  [ReciprocalLatticeVectors |->
     <<"R", "e", "c", "i", "p", "r", "o", "c", "a", "l", "L", "a", "t", "t", "i", "c", "e",
       "V", "e", "c", "t", "o", "r", "s">>,
   pi_a |-> <<"p", "i", "/", "a">>,
   one_Ang |-> <<"1", ".", "0", " ", "A", "n", "g">>,
   Ang |-> <<"A", "n", "g">>,
   Lua |-> <<"L", "u", "a">>,
   T |-> <<"T">>,
   Ry |-> <<"1", "0", "0", " ", "R", "y">>,
   DZP |-> <<"D", "Z", "P">>,
   xyz |-> <<".", "x", "y", "z">>,
   image_xyz |-> <<"i", "m", "a", "g", "e", "*", ".", "x", "y", "z">>]

\* values of the parameters dictionary: a string is [chars |-> its characters]
\* or, when the code only copies it, [str |-> the string]; an integer is
\* [int |-> n] and a boolean [bool |-> b]
StrVal(s) == [chars |-> s]
NameVal(s) == [str |-> s]

\* keywords that cannot be set, compared as the caller would write them
aiida_blocked_keywords_Untranslated ==
  << kw.system_name, kw.system_label, kw.number_of_species, kw.number_of_atoms,
     kw.lattice_constant, kw.atomic_coordinates_format, kw.use_tree_timer, kw.xml_write,
     kw.dm_use_save_dm, kw.geometry_must_converge >>

\* keywords that cannot be set, already translated by FDFDict
aiida_blocked_keywords ==
  << translate_key(kw.system_name), translate_key(kw.system_label),
     translate_key(kw.number_of_species), translate_key(kw.number_of_atoms),
     translate_key(kw.lattice_constant), translate_key(kw.atomic_coordinates_format),
     translate_key(kw.use_tree_timer), translate_key(kw.xml_write),
     translate_key(kw.dm_use_save_dm), translate_key(kw.geometry_must_converge) >>

\* defaults of the metadata options and class attributes
SiestaCalculation ==
  [DEFAULT_PREFIX |-> "aiida", DEFAULT_INPUT_FILE |-> "aiida.fdf",
   DEFAULT_OUTPUT_FILE |-> "aiida.out", DEFAULT_NEB_RESULTS_FILE |-> "NEB.results",
   DEFAULT_NEB_XYZ_PREFIX |-> <<"i", "m", "a", "g", "e", "_">>, JSON_FILE |-> "time.json",
   MESSAGES_FILE |-> "MESSAGES", restart_copy_from |-> "./*.DM",
   restart_copy_to |-> "./"]

\* kind names of the sites of the input structures
SiteKindNames == { "A", "B" }

\* chemical symbol of the kinds of the input structures: B is a sub-species
\* of the element of A
SiteKindSymbol == [ A |-> "Si", B |-> "Si" ]

\* entries (name, symbol, position) offered for the floating_orbitals list
FloatingItems == { <<"A", "C", 1>>, <<"G", "H", 1>>, <<"X", "O", 2>> }

\* kind names offered as keys of the pseudos namespace
PseudoNames == { "A", "B", "G", "X" }

\* the pseudo nodes behind the keys: A and B share one file
PseudoNode ==
  [ A |-> [uuid |-> "psf-Si", filename |-> "Si.psf", type |-> "PsfData"],
    B |-> [uuid |-> "psf-Si", filename |-> "Si.psf", type |-> "PsfData"],
    G |-> [uuid |-> "psml-H", filename |-> "H.psml", type |-> "PsmlData"],
    X |-> [uuid |-> "psf-O", filename |-> "O.psf", type |-> "PsfData"] ]

Item(key, value) == [key |-> key, value |-> value]

\* the entries of the basis dictionary besides floating_orbitals, as the
\* caller wrote them
PaoBasis == << Item(kw.pao_basis_size, StrVal(word.DZP)) >>

\* the basis input: absent, a dictionary without the key floating_orbitals, or
\* a dictionary with the list
BasisInputs ==
  { [present |-> FALSE, has_floating |-> FALSE, floating_orbitals |-> << >>,
     items |-> << >>],
    [present |-> TRUE, has_floating |-> FALSE, floating_orbitals |-> << >>,
     items |-> PaoBasis] }
  \cup
  { [present |-> TRUE, has_floating |-> TRUE, floating_orbitals |-> f,
     items |-> PaoBasis] :
      f \in SeqsUpTo(FloatingItems, MaxFloating) }

\* a keyword as a caller may spell it: the words in lower case, capitalised
\* or in upper case, joined by the separator sep
RECURSIVE Respell(_, _, _, _)
Respell(key, sep, case, start) ==
  IF key = << >>
    THEN << >>
    ELSE LET c == Head(key)
         IN  IF c = "-"
               THEN sep \o Respell(Tail(key), sep, case, TRUE)
               ELSE << IF case = "upper" \/ (case = "capital" /\ start)
                         THEN upper(c) ELSE c >>
                    \o Respell(Tail(key), sep, case, FALSE)

\* the spellings offered: md-variable-cell, Md.Variable.Cell, MD_VARIABLE_CELL,
\* mdvariablecell and MdVariableCell
Style ==
  [Dash |-> [sep |-> <<"-">>, case |-> "lower"],
   Dotted |-> [sep |-> <<".">>, case |-> "capital"],
   Shout |-> [sep |-> <<"_">>, case |-> "upper"],
   Joined |-> [sep |-> << >>, case |-> "lower"],
   Camel |-> [sep |-> << >>, case |-> "capital"]]

Spell(key, style) == Respell(key, style.sep, style.case, TRUE)

DefaultParameters == << Item(kw.mesh_cutoff, StrVal(word.Ry)) >>

\* parameters dictionaries (the items in the order of the dictionary): empty,
\* one keyword in each spelling, and pairs of keys
ParameterInputs ==
  LET ValueFor(keyword) ==
        IF keyword = kw.md_variable_cell THEN [bool |-> TRUE]
        ELSE IF keyword = kw.BandLinesScale THEN StrVal(word.pi_a)
        ELSE StrVal(word.Ry)
      ParameterKeywords ==
        { kw.system_name, kw.system_label, kw.number_of_species, kw.number_of_atoms,
          kw.lattice_constant, kw.atomic_coordinates_format, kw.use_tree_timer,
          kw.xml_write, kw.dm_use_save_dm, kw.geometry_must_converge,
          kw.pao_basis_size, kw.pao_energy_shift, kw.mesh_cutoff, kw.md_variable_cell,
          kw.BandLinesScale }
  IN  { << >> }
      \cup { << Item(Spell(k, Style[s]), ValueFor(k)) >> :
               k \in ParameterKeywords, s \in DOMAIN Style }
      \cup { d \in { << Item(Spell(k1, s1), ValueFor(k1)), Item(Spell(k2, s2), ValueFor(k2)) >> :
                        k1 \in { kw.mesh_cutoff, kw.system_name, kw.pao_basis_size },
                        k2 \in { kw.mesh_cutoff, kw.system_name, kw.system_label,
                                 kw.md_variable_cell },
                        s1 \in { Style.Dash, Style.Dotted },
                        s2 \in { Style.Dotted, Style.Shout } } :
               d[1].key # d[2].key }

\* the kpoints input: absent, a mesh with its offset (in tenths), or a list
\* of k-points (get_kpoints_mesh raises AttributeError)
Kpoints(present, has_mesh, mesh, offset) ==
  [present |-> present, has_mesh |-> has_mesh, mesh |-> mesh, offset |-> offset]

NoKpoints == Kpoints(FALSE, FALSE, <<0, 0, 0>>, <<0, 0, 0>>)

KpointsInputs ==
  { NoKpoints, Kpoints(TRUE, FALSE, <<0, 0, 0>>, <<0, 0, 0>>) }
  \cup { Kpoints(TRUE, TRUE, m, o) :
           m \in { <<1, 1, 1>>, <<2, 3, 4>>, <<4, 1, 2>> },
           o \in { <<0, 0, 0>>, <<5, 5, 5>>, <<0, 5, 2>> } }

\* a cell that is not the cell of the input structure
OtherCell == << <<3, 0, 0>>, <<0, 3, 0>>, <<0, 0, 3>> >>

\* the bandskpoints input: the cell attribute (absent, or a cell), the number
\* of k-points and the labels (absent, or pairs (index, label))
Bandskpoints(present, has_cell, cell, nkpts, has_labels, labels) ==
  [present |-> present, has_cell |-> has_cell, cell |-> cell, nkpts |-> nkpts,
   has_labels |-> has_labels, labels |-> labels]

NoBandskpoints == Bandskpoints(FALSE, FALSE, Cell, 0, FALSE, << >>)

\* the members of a set of indexes in increasing order
RECURSIVE Increasing(_)
Increasing(S) ==
  IF S = {}
    THEN << >>
    ELSE LET m == CHOOSE x \in S : \A y \in S : x <= y
         IN  << m >> \o Increasing(S \ { m })

\* the labels (index, label) of the k-points at the indexes
Labelled(indexes) ==
  [j \in 1 .. Len(indexes) |-> << indexes[j], "k" \o ToString(indexes[j]) >>]

\* band inputs: without labels, with labels at every increasing choice among
\* the k-points, and at some that do not increase (the setter of the labels
\* does not sort them)
BandskpointsInputs ==
  LET BandCells == { [has_cell |-> FALSE, cell |-> Cell],
                     [has_cell |-> TRUE, cell |-> Cell],
                     [has_cell |-> TRUE, cell |-> OtherCell] }
      LabelIndexes ==
        { Increasing(S) : S \in SUBSET (0 .. MaxKpts - 1) }
        \cup { <<2, 0>>, <<1, 1>>, <<MaxKpts - 1, 2, 0>> }
  IN  { NoBandskpoints }
      \cup { Bandskpoints(TRUE, c.has_cell, c.cell, n, FALSE, << >>) :
               c \in BandCells, n \in { 1, MaxKpts } }
      \cup { Bandskpoints(TRUE, c.has_cell, c.cell, MaxKpts, TRUE, Labelled(l)) :
               c \in BandCells, l \in LabelIndexes }

\* the neb_input_images input: absent, or a trajectory of numsteps images
NoImages == [present |-> FALSE, numsteps |-> 0]

\* the metadata options
DefaultOptions ==
  [prefix |-> SiestaCalculation.DEFAULT_PREFIX,
   input_filename |-> SiestaCalculation.DEFAULT_INPUT_FILE,
   output_filename |-> SiestaCalculation.DEFAULT_OUTPUT_FILE,
   neb_results_file |-> SiestaCalculation.DEFAULT_NEB_RESULTS_FILE,
   neb_xyz_prefix |-> SiestaCalculation.DEFAULT_NEB_XYZ_PREFIX]

\* the inputs of a calculation
BuildInput(structure, parameters, kpoints, bandskpoints, parent_calc_folder, neb_input_images, lua_script) ==
  [sites |-> structure.sites, basis |-> structure.basis, pseudos |-> structure.pseudos,
   parameters |-> parameters, kpoints |-> kpoints, bandskpoints |-> bandskpoints,
   parent_calc_folder |-> parent_calc_folder, neb_input_images |-> neb_input_images,
   lua_script |-> lua_script, options |-> DefaultOptions,
   additional_retrieve_list |-> << >>]

\* structures with their basis and pseudos
StructureInputs ==
  { [sites |-> st, basis |-> b, pseudos |-> ps] :
      st \in (SeqsUpTo(SiteKindNames, MaxSites) \ { << >> }),
      b \in BasisInputs,
      ps \in SUBSET PseudoNames }

\* a basis dictionary with the floating_orbitals list f
Floating(f) ==
  [present |-> TRUE, has_floating |-> TRUE, floating_orbitals |-> f, items |-> PaoBasis]

\* a few structures: without basis, with ghosts, with a ghost named as a kind,
\* with a kind without pseudo, with keywords of the parameters in the basis
FewStructures ==
  { [sites |-> <<"A">>,
     basis |-> [present |-> FALSE, has_floating |-> FALSE, floating_orbitals |-> << >>,
                items |-> << >>],
     pseudos |-> {"A"}],
    [sites |-> <<"A", "B">>, basis |-> Floating(<< <<"G", "H", 1>> >>),
     pseudos |-> {"A", "B", "G"}],
    [sites |-> <<"B", "A">>, basis |-> Floating(<< <<"X", "O", 2>>, <<"G", "H", 1>> >>),
     pseudos |-> {"A", "B", "G", "X"}],
    [sites |-> <<"A">>, basis |-> Floating(<< <<"A", "C", 1>> >>), pseudos |-> {"A"}],
    [sites |-> <<"A", "B">>,
     basis |-> [present |-> TRUE, has_floating |-> FALSE, floating_orbitals |-> << >>,
                items |-> PaoBasis],
     pseudos |-> {"A"}],
    [sites |-> <<"A", "B">>,
     basis |-> [present |-> TRUE, has_floating |-> FALSE, floating_orbitals |-> << >>,
                items |-> PaoBasis
                          \o << Item(Spell(kw.system_label, Style.Dotted), StrVal(word.Lua)) >>],
     pseudos |-> {"A", "B"}] }

\* the inputs of the runs: every structure with default inputs, every
\* parameters dictionary, k-point input and band input on a few structures,
\* the combinations of a few values of each input, and prefixes of the image
\* files with entries of ADDITIONAL_RETRIEVE_LIST
BuildInputs ==
  LET ValidStructures == { s \in FewStructures : s.basis.has_floating /\ Len(s.sites) = 2 }
      VarCellValues ==
        { [bool |-> TRUE], [bool |-> FALSE], StrVal(word.T), StrVal(<<"F">>),
          StrVal(<<".", "t", "r", "u", "e", ".">>), StrVal(<<"Y", "e", "s">>) }
      BandParameters ==
        { << >>, DefaultParameters,
          << Item(kw.BandLinesScale, StrVal(word.pi_a)) >>,
          << Item(kw.BandLinesScale, StrVal(word.ReciprocalLatticeVectors)) >> }
        \cup { << Item(Spell(k, s), v) >> :
                 k \in { kw.md_variable_cell, kw.md_constant_volume, kw.md_relax_cell_only },
                 s \in { Style.Dash, Style.Dotted }, v \in VarCellValues }
      FewParameters ==
        { << >>, DefaultParameters,
          << Item(Spell(kw.system_label, Style.Dotted), StrVal(word.Ry)) >>,
          << Item(Spell(kw.pao_basis_size, Style.Dotted), StrVal(word.Ry)) >>,
          << Item(kw.mesh_cutoff, StrVal(word.Ry)),
             Item(kw.md_variable_cell, [bool |-> TRUE]) >>,
          << Item(kw.BandLinesScale, StrVal(word.pi_a)) >> }
      FewKpoints ==
        { NoKpoints, Kpoints(TRUE, FALSE, <<0, 0, 0>>, <<0, 0, 0>>),
          Kpoints(TRUE, TRUE, <<2, 3, 4>>, <<0, 5, 2>>) }
      FewBandskpoints ==
        { NoBandskpoints,
          Bandskpoints(TRUE, FALSE, Cell, 1, FALSE, << >>),
          Bandskpoints(TRUE, TRUE, Cell, MaxKpts, TRUE, Labelled(<<0, 2, MaxKpts - 1>>)),
          Bandskpoints(TRUE, TRUE, OtherCell, MaxKpts, TRUE, Labelled(<<0, 2>>)) }
      NebXyzPrefixes ==
        { SiestaCalculation.DEFAULT_NEB_XYZ_PREFIX, <<"i", "m", "a", "g", "e">>,
          <<"s", "t", "e", "p", "_">>, <<"I", "m", "a", "g", "e", "_">>, << >> }
      SettingsRetrieveLists ==
        { << >>, << NameVal("extra.dat") >>, << NameVal("a.txt"), NameVal("aiida.out") >> }
      ImagesInputs ==
        { NoImages, [present |-> TRUE, numsteps |-> 1],
          [present |-> TRUE, numsteps |-> MaxImages] }
  IN  { BuildInput(s, DefaultParameters, NoKpoints, NoBandskpoints, FALSE, NoImages, FALSE) :
          s \in StructureInputs }
      \cup { BuildInput(s, p, NoKpoints, NoBandskpoints, r, NoImages, FALSE) :
               s \in FewStructures, p \in ParameterInputs, r \in BOOLEAN }
      \cup { BuildInput(s, DefaultParameters, k, NoBandskpoints, FALSE, NoImages, FALSE) :
               s \in FewStructures, k \in KpointsInputs }
      \cup { BuildInput(s, DefaultParameters, NoKpoints, b, FALSE, NoImages, FALSE) :
               s \in ValidStructures, b \in BandskpointsInputs }
      \cup { BuildInput(s, p, NoKpoints, b, FALSE, NoImages, FALSE) :
               s \in ValidStructures, p \in BandParameters, b \in FewBandskpoints }
      \cup { BuildInput(s, p, k, b, r, i, l) :
               s \in FewStructures, p \in FewParameters, k \in FewKpoints,
               b \in FewBandskpoints, r \in BOOLEAN, i \in ImagesInputs, l \in BOOLEAN }
      \cup { [BuildInput(s, DefaultParameters, NoKpoints, b, FALSE, i, l) EXCEPT
                 !.options.neb_xyz_prefix = x, !.additional_retrieve_list = a] :
               s \in FewStructures, b \in FewBandskpoints, i \in ImagesInputs, l \in BOOLEAN,
               x \in NebXyzPrefixes, a \in SettingsRetrieveLists }

-----------------------------------------------------------------------------
(* SiestaCalculation.prepare_for_submission: the steps of the handler *)

\* [kind.name for kind in structure.kinds]: the kind names of the sites, each
\* once, in the order the sites were appended
RECURSIVE KindNames(_)
KindNames(sites) ==
  IF sites = << >>
    THEN << >>
    ELSE LET front == KindNames(SubSeq(sites, 1, Len(sites) - 1))
             last == sites[Len(sites)]
         IN  IF \E j \in 1 .. Len(front) : front[j] = last
               THEN front
               ELSE Append(front, last)

\* clone_structure: a new structure with the sites of s
clone_structure(s) == s

\* the loop over the floating orbitals that skips an entry whose name was
\* already added
RECURSIVE AddGhosts_SkipRepeated(_, _, _, _)
AddGhosts_SkipRepeated(floating, original_kind_names, sites, floating_species_names) ==
  IF floating = << >>
    THEN [raised |-> FALSE, sites |-> sites,
          floating_species_names |-> floating_species_names]
    ELSE LET item == Head(floating)
         IN  IF item[1] \in Range(original_kind_names)
               THEN [raised |-> TRUE, sites |-> sites,
                     floating_species_names |-> floating_species_names]
               ELSE IF item[1] \in Range(floating_species_names)
                 THEN AddGhosts_SkipRepeated(Tail(floating), original_kind_names,
                                             sites, floating_species_names)
                 ELSE AddGhosts_SkipRepeated(Tail(floating), original_kind_names,
                                             Append(sites, item[1]),
                                             Append(floating_species_names, item[1]))

\* the loop over the floating orbitals: it raises at an entry named as a kind
\* of the original structure, else it appends a site of kind item[0] and notes
\* the name
RECURSIVE AddGhosts(_, _, _, _)
AddGhosts(floating, original_kind_names, sites, floating_species_names) ==
  IF floating = << >>
    THEN [raised |-> FALSE, sites |-> sites,
          floating_species_names |-> floating_species_names]
    ELSE LET item == Head(floating)
         IN  IF item[1] \in Range(original_kind_names)
               THEN [raised |-> TRUE, sites |-> sites,
                     floating_species_names |-> floating_species_names]
               ELSE AddGhosts(Tail(floating), original_kind_names,
                              Append(sites, item[1]),
                              Append(floating_species_names, item[1]))

\* the ghost sites are added to a clone of the input structure
GhostExpansion(sites, basis) ==
  IF basis.present /\ basis.has_floating
    THEN AddGhosts(basis.floating_orbitals, KindNames(sites), sites, << >>)
    ELSE [raised |-> FALSE, sites |-> sites, floating_species_names |-> << >>]

\* set(kinds) != set(pseudos.keys()) accepting orphan pseudos
PseudosMismatch_OrphansAccepted(kinds, pseudos) == ~(Range(kinds) \subseteq pseudos)

\* set(kinds) != set(pseudos.keys())
PseudosMismatch(kinds, pseudos) == Range(kinds) # pseudos

\* what an error message names: keys of the parameters, kind names, keys of
\* the pseudos, cells
NoNamed == [keys |-> {}, kinds |-> {}, pseudos |-> {}, cells |-> {}]

\* the local variables of the handler, the folder and the outcome
NoResult ==
  [status |-> "none", error |-> "none", named |-> NoNamed,
   original_sites |-> << >>, sites |-> << >>, floating_species_names |-> << >>,
   input_params |-> << >>, local_copy_list |-> << >>, remote_copy_list |-> << >>,
   atomic_species_card |-> << >>, cell_parameters_card |-> << >>,
   atomic_positions_card |-> << >>, kpoints_card |-> << >>, fbkpoints_card |-> << >>,
   warnings |-> << >>, files |-> << >>, retrieve_list |-> << >>]

Raise(st, exception, error, named) ==
  [st EXCEPT !.status = exception, !.error = error, !.named = named]

\* lines 199-214: the clone of the structure with its ghost sites
Ghosts(in, st) ==
  LET g == GhostExpansion(clone_structure(in.sites), in.basis)
      s == [st EXCEPT !.status = "ok", !.original_sites = in.sites, !.sites = g.sites,
                      !.floating_species_names = g.floating_species_names]
  IN  IF g.raised
        THEN Raise(s, "ValueError", "ghost_name_is_structure_kind", NoNamed)
        ELSE s

\* lines 216-222: every kind has a pseudo and every pseudo a kind
Pseudos(in, st) ==
  LET kinds == KindNames(st.sites)
  IN  IF st.status # "ok" THEN st
      ELSE IF PseudosMismatch(kinds, in.pseudos)
        THEN Raise(st, "ValueError", "pseudos_kinds_mismatch",
                   [NoNamed EXCEPT !.kinds = Range(kinds), !.pseudos = in.pseudos])
        ELSE st

\* lines 228-238: the first key that is a PAO option or a blocked keyword
Validation(input_params) ==
  LET keys == [j \in 1 .. Len(input_params) |-> input_params[j].key]
      bad == { j \in 1 .. Len(keys) :
                 pao_in(keys[j]) \/ keys[j] \in Range(aiida_blocked_keywords) }
      first == CHOOSE j \in bad : \A k \in bad : j <= k
  IN  IF bad = {}
        THEN [error |-> "none", named |-> NoNamed]
        ELSE IF pao_in(keys[first])
          THEN [error |-> "pao_in_parameters", named |-> NoNamed]
          ELSE [error |-> "blocked_keyword",
                named |-> [NoNamed EXCEPT !.keys =
                             { get_last_untranslated_key(input_params, keys[first]) }]]

\* lines 239-247 with the number of atoms taken from the input structure
Injection_OriginalSites(in, st, input_params) ==
  LET p1 == FDFDict_update(input_params, kw.system_name, NameVal(in.options.prefix))
      p2 == FDFDict_update(p1, kw.system_label, NameVal(in.options.prefix))
      p3 == FDFDict_update(p2, kw.use_tree_timer, StrVal(word.T))
      p4 == FDFDict_update(p3, kw.xml_write, StrVal(word.T))
      p5 == FDFDict_update(p4, kw.number_of_species, [int |-> Len(KindNames(st.sites))])
      p6 == FDFDict_update(p5, kw.number_of_atoms, [int |-> Len(in.sites)])
      p7 == FDFDict_update(p6, kw.geometry_must_converge, StrVal(word.T))
      p8 == FDFDict_update(p7, kw.lattice_constant, StrVal(word.one_Ang))
  IN  FDFDict_update(p8, kw.atomic_coordinates_format, StrVal(word.Ang))

\* lines 239-247: the values set by the plugin
Injection(in, st, input_params) ==
  LET p1 == FDFDict_update(input_params, kw.system_name, NameVal(in.options.prefix))
      p2 == FDFDict_update(p1, kw.system_label, NameVal(in.options.prefix))
      p3 == FDFDict_update(p2, kw.use_tree_timer, StrVal(word.T))
      p4 == FDFDict_update(p3, kw.xml_write, StrVal(word.T))
      p5 == FDFDict_update(p4, kw.number_of_species, [int |-> Len(KindNames(st.sites))])
      p6 == FDFDict_update(p5, kw.number_of_atoms, [int |-> Len(st.sites)])
      p7 == FDFDict_update(p6, kw.geometry_must_converge, StrVal(word.T))
      p8 == FDFDict_update(p7, kw.lattice_constant, StrVal(word.one_Ang))
  IN  FDFDict_update(p8, kw.atomic_coordinates_format, StrVal(word.Ang))

\* lines 226-252: the parameters are checked, then completed; the lua_script
\* input is a file with its name
Parameters(in, st) ==
  LET LuaScript == [uuid |-> "lua-uuid", filename |-> "neb.lua"]
      input_params == FDFDict(in.parameters)
      v == Validation(input_params)
      injected == Injection(in, st, input_params)
      lua1 == FDFDict_update(injected, kw.md_type_of_run, StrVal(word.Lua))
      lua2 == FDFDict_update(lua1, kw.lua_script, NameVal(LuaScript.filename))
  IN  IF st.status # "ok" THEN st
      ELSE IF v.error # "none"
        THEN Raise([st EXCEPT !.input_params = input_params],
                   "InputValidationError", v.error, v.named)
        ELSE IF in.lua_script
          THEN [st EXCEPT !.input_params = lua2,
                          !.local_copy_list =
                             Append(@, << LuaScript.uuid, LuaScript.filename,
                                          LuaScript.filename >>)]
          ELSE [st EXCEPT !.input_params = injected]

\* atomic numbers of the elements of the runs
datmn == [ H |-> 1, C |-> 6, O |-> 8, Si |-> 14 ]

\* kind.symbol: of a kind of the input structure, or of a ghost
KindSymbol(in, name) ==
  IF name \in Range(in.sites)
    THEN SiteKindSymbol[name]
    ELSE (CHOOSE item \in Range(in.basis.floating_orbitals) : item[1] = name)[2]

\* site.position: positions are numbers standing for the coordinates
SitePosition(in, j) ==
  IF j <= Len(in.sites)
    THEN 10 * j
    ELSE IF j - Len(in.sites) <= Len(in.basis.floating_orbitals)
      THEN in.basis.floating_orbitals[j - Len(in.sites)][3]
      ELSE 0

\* lines 275-307 with one species index per chemical symbol
SpeciesRows_IndexBySymbol(in, kinds, floating_species_names) ==
  [j \in 1 .. Len(kinds) |->
     [spind |-> CHOOSE k \in 1 .. j :
                  /\ KindSymbol(in, kinds[k]) = KindSymbol(in, kinds[j])
                  /\ \A l \in 1 .. k - 1 : KindSymbol(in, kinds[l]) # KindSymbol(in, kinds[j]),
      atomic_number |-> IF kinds[j] \in Range(floating_species_names)
                          THEN 0 - datmn[KindSymbol(in, kinds[j])]
                          ELSE datmn[KindSymbol(in, kinds[j])],
      name |-> kinds[j]]]

\* lines 275-307: one row (spind, atomic number, name) per kind, the atomic
\* number negated for the floating species
SpeciesRows(in, kinds, floating_species_names) ==
  [j \in 1 .. Len(kinds) |->
     [spind |-> j,
      atomic_number |-> IF kinds[j] \in Range(floating_species_names)
                          THEN 0 - datmn[KindSymbol(in, kinds[j])]
                          ELSE datmn[KindSymbol(in, kinds[j])],
      name |-> kinds[j]]]

\* lines 291-304: the pseudo of each kind is copied under the name of the kind
PseudoCopies(kinds) ==
  [j \in 1 .. Len(kinds) |->
     LET psp == PseudoNode[kinds[j]]
     IN  << psp.uuid, psp.filename,
            kinds[j] \o (IF psp.type = "PsfData" THEN ".psf" ELSE ".psml") >>]

\* lines 266-324: the cards of the cell, of the species and of the positions
Cards(in, st) ==
  LET kinds == KindNames(st.sites)
      rows == SpeciesRows(in, kinds, st.floating_species_names)
      spind == [name \in Range(kinds) |->
                  (CHOOSE r \in Range(rows) : r.name = name).spind]
  IN  IF st.status # "ok" THEN st
      ELSE [st EXCEPT
              !.cell_parameters_card = Cell,
              !.atomic_species_card = rows,
              !.local_copy_list = @ \o PseudoCopies(kinds),
              !.atomic_positions_card =
                 [j \in 1 .. Len(st.sites) |->
                    [position |-> SitePosition(in, j),
                     spind |-> spind[st.sites[j]],
                     kind_name |-> st.sites[j],
                     countatm |-> j]]]

\* lines 337-339 with the mesh always in the first column
KpointsRows_FirstColumn(mesh, offset) ==
  << << mesh[1], 0, 0, offset[1] >>,
     << mesh[2], 0, 0, offset[2] >>,
     << mesh[3], 0, 0, offset[3] >> >>

\* lines 337-339: the rows of the block kgrid_monkhorst_pack
KpointsRows(mesh, offset) ==
  << << mesh[1], 0, 0, offset[1] >>,
     << 0, mesh[2], 0, offset[2] >>,
     << 0, 0, mesh[3], offset[3] >> >>

Block(name, rows) == [block |-> name, rows |-> rows]

\* lines 328-342: the k-points of the SCF cycle
KpointsCard(in, st) ==
  IF st.status # "ok" \/ ~in.kpoints.present THEN st
  ELSE IF ~in.kpoints.has_mesh
    THEN Raise(st, "InputValidationError", "kpoints_not_mesh", NoNamed)
    ELSE [st EXCEPT !.kpoints_card =
            << Block("kgrid_monkhorst_pack",
                     KpointsRows(in.kpoints.mesh, in.kpoints.offset)) >>]

\* bandskpoints.get_kpoints(): the coordinates of the k-points
get_kpoints(bandskpoints) == [j \in 1 .. bandskpoints.nkpts |-> << j - 1, 0, 0 >>]

\* lines 362-363: the variable-cell keywords, translated
var_cell_keys ==
  << translate_key(kw.md_variable_cell), translate_key(kw.md_constant_volume),
     translate_key(kw.md_relax_cell_only) >>

\* lines 364-378: a variable-cell keyword set to true in the parameters
VariableCellRequested(input_params) ==
  \E e \in Range(input_params) :
    /\ e.key \in Range(var_cell_keys)
    /\ IF "chars" \in DOMAIN e.value
         THEN translate_key(e.value.chars) \in { <<"t">>, <<"t", "r", "u", "e">>,
                                                 <<"y", "e", "s">> }
         ELSE e.value = [bool |-> TRUE]

\* lines 391-408 with the multiplicity counted from the first labelled point
BandLinesRows_FromFirst(listforbands, labels) ==
  [rawindex \in 1 .. Len(labels) |->
     [multiplicity |-> IF rawindex = 1 THEN 1 ELSE labels[rawindex][1] - labels[1][1],
      kpoint |-> listforbands[labels[rawindex][1] + 1],
      label |-> labels[rawindex][2]]]

\* lines 391-408: one row per label, the multiplicity being 1 for the first
\* and the distance to the previous labelled index for the others
BandLinesRows(listforbands, labels) ==
  [rawindex \in 1 .. Len(labels) |->
     [multiplicity |-> IF rawindex = 1
                         THEN 1
                         ELSE labels[rawindex][1] - labels[rawindex - 1][1],
      kpoint |-> listforbands[labels[rawindex][1] + 1],
      label |-> labels[rawindex][2]]]

\* lines 351-411: the k-points of the bands
BandsCard(in, st) ==
  LET b == in.bandskpoints
      kpcell == b.has_cell
      rows == IF b.has_labels
                THEN Block("BandLines", BandLinesRows(get_kpoints(b), b.labels))
                ELSE Block("BandPoints", get_kpoints(b))
  IN  IF st.status # "ok" \/ ~b.present THEN st
      ELSE IF kpcell /\ b.cell # Cell
        THEN Raise(st, "ValueError", "bandskpoints_cell_mismatch", NoNamed)
        ELSE [st EXCEPT
                !.warnings = IF VariableCellRequested(st.input_params)
                               THEN Append(@, "bands_after_variable_cell_relaxation")
                               ELSE @,
                !.fbkpoints_card =
                   << Item(kw.BandLinesScale, StrVal(word.ReciprocalLatticeVectors)), rows >>]

\* lines 420-425 without the copy of the density matrix
Restart_NoCopy(in, st) ==
  IF st.status # "ok" \/ ~in.parent_calc_folder THEN st
  ELSE [st EXCEPT
          !.input_params = FDFDict_update(@, kw.dm_use_save_dm, StrVal(word.T))]

\* lines 420-425: a restart copies the density matrix of the parent folder (a
\* remote folder on a computer) and tells Siesta to read it
Restart(in, st) ==
  LET ParentCalcFolder ==
        [computer_uuid |-> "computer-uuid", remote_path |-> "/scratch/parent"]
  IN
  IF st.status # "ok" \/ ~in.parent_calc_folder THEN st
  ELSE [st EXCEPT
          !.remote_copy_list =
             Append(@, << ParentCalcFolder.computer_uuid,
                          ParentCalcFolder.remote_path \o "/"
                            \o SiestaCalculation.restart_copy_from,
                          SiestaCalculation.restart_copy_to >>),
          !.input_params = FDFDict_update(@, kw.dm_use_save_dm, StrVal(word.T))]

\* lines 453-457: the positions of the sites of image i of neb_input_images
\* (numbers standing for the coordinates), then of the ghosts
ImagePositions(in, i) ==
  [j \in 1 .. Len(in.sites) |-> 100 * (i + 1) + 10 * j]
  \o (IF in.basis.has_floating
        THEN [j \in 1 .. Len(in.basis.floating_orbitals) |->
                in.basis.floating_orbitals[j][3]]
        ELSE << >>)

\* str(n): the decimal digits of n
RECURSIVE str(_)
str(n) ==
  IF n < 10 THEN << ascii.digits[n + 1] >> ELSE str(n \div 10) \o << ascii.digits[(n % 10) + 1] >>

\* lines 452-466: the file of image i, named "{}{}.xyz".format(neb_image_prefix, i)
ImageFile(in, i) ==
  LET positions == ImagePositions(in, i)
  IN  [name |-> StrVal(in.options.neb_xyz_prefix \o str(i) \o word.xyz),
       content |-> [count |-> Len(positions), separator |-> "----- ",
                    positions |-> positions]]

\* lines 435-466: one xyz file per image; the name floating is bound only
\* when a basis is given
NebImages(in, st) ==
  IF st.status # "ok" \/ ~in.neb_input_images.present THEN st
  ELSE IF ~in.basis.present
    THEN Raise(st, "UnboundLocalError", "floating_referenced_before_assignment", NoNamed)
    ELSE [st EXCEPT !.files =
            @ \o [k \in 1 .. in.neb_input_images.numsteps |-> ImageFile(in, k - 1)]]

\* lines 474-505: the input file
FdfFile(in, st) ==
  IF st.status # "ok" THEN st
  ELSE [st EXCEPT !.files =
          Append(@,
            [name |-> NameVal(in.options.input_filename),
             content |->
               sorted(get_filtered_items(st.input_params))
               \o (IF in.basis.present
                     THEN << [comment |-> "Basis Set Info follows"] >>
                          \o in.basis.items
                     ELSE << >>)
               \o << [comment |-> "Structural Info follows"],
                     Block("chemicalspecieslabel", st.atomic_species_card),
                     Block("lattice-vectors", st.cell_parameters_card),
                     Block("atomiccoordinatesandatomicspecies", st.atomic_positions_card) >>
               \o (IF in.kpoints.present
                     THEN << [comment |-> "K-points Info follows"] >>
                          \o st.kpoints_card
                     ELSE << >>)
               \o (IF in.bandskpoints.present
                     THEN << [comment |-> "Bandlines/Bandpoints Info follows"] >>
                          \o st.fbkpoints_card
                     ELSE << >>)
               \o << [comment |-> "Max wall-clock time block"],
                     Item(kw.max_walltime, NameVal("max_wallclock_seconds")) >>])]

\* lines 532-553: the files to retrieve
RetrieveList(in, st) ==
  IF st.status # "ok" THEN st
  ELSE [st EXCEPT !.retrieve_list =
          << NameVal(in.options.output_filename), NameVal(in.options.prefix \o ".xml"),
             NameVal(SiestaCalculation.JSON_FILE), NameVal(SiestaCalculation.MESSAGES_FILE),
             NameVal("*.ion.xml") >>
          \o (IF in.bandskpoints.present
                THEN << NameVal(in.options.prefix \o ".bands") >> ELSE << >>)
          \o (IF in.neb_input_images.present
                THEN << StrVal(word.image_xyz) >>
                     \o (IF in.lua_script
                           THEN << NameVal(in.options.neb_results_file) >> ELSE << >>)
                ELSE << >>)
          \o in.additional_retrieve_list]

\* the handler with the image files written before the band k-points are checked
prepare_for_submission_ImagesFirst(in) ==
  CHOOSE result \in
    { RetrieveList(in, s9) : s9 \in { FdfFile(in, s8) : s8 \in { Restart(in, s7) : s7 \in
    { BandsCard(in, s6) : s6 \in { NebImages(in, s5) : s5 \in { KpointsCard(in, s4) : s4 \in
    { Cards(in, s3) : s3 \in { Parameters(in, s2) : s2 \in { Pseudos(in, s1) : s1 \in
    { Ghosts(in, NoResult) } } } } } } } } } } : TRUE

\* prepare_for_submission: the steps in the order of the code, each applied
\* to the outcome s of the steps before it (floating orbitals, pseudos,
\* parameters, cards, k-points, band k-points, restart, images, input file,
\* retrieve list); a step that raises ends the handler
prepare_for_submission(in) ==
  CHOOSE result \in
    { RetrieveList(in, s9) : s9 \in { FdfFile(in, s8) : s8 \in { NebImages(in, s7) : s7 \in
    { Restart(in, s6) : s6 \in { BandsCard(in, s5) : s5 \in { KpointsCard(in, s4) : s4 \in
    { Cards(in, s3) : s3 \in { Parameters(in, s2) : s2 \in { Pseudos(in, s1) : s1 \in
    { Ghosts(in, NoResult) } } } } } } } } } } : TRUE

\* the engine calls prepare_for_submission on the inputs of the calculation
PrepareForSubmission ==
  /\ bld.pc = "ready"
  /\ bld' = [bld EXCEPT !.pc = "done", !.result = prepare_for_submission(bld.in)]
  /\ UNCHANGED <<wfvars, geo, prs>>

BuildInit ==
  /\ kind = "NEB"
  /\ inp = Input(0, FALSE, FALSE, <<0, 0, 0>>, 0, 0, TRUE, NoPath)
  /\ pc = "relax_initial"
  /\ ctx = NoCtx
  /\ awaiting = {}
  /\ relax = [w \in {"initial", "final"} |-> NoRelax]
  /\ calc = NoCalc
  /\ exit = NoExit
  /\ out = NoOut
  /\ bpc = "none"
  /\ bin = NoPath
  /\ bawaiting = {}
  /\ bexit = NoExit
  /\ bout = NoOut
  /\ log = {}
  /\ bld \in { [pc |-> "ready", in |-> i, result |-> NoResult] : i \in BuildInputs }
  /\ geo = GeoIdle
  /\ prs = PrsIdle

BuildNext == PrepareForSubmission

SpecBuild == BuildInit /\ [][BuildNext]_vars

-----------------------------------------------------------------------------
(* Properties of prepare_for_submission *)

\* the floating orbitals declared by the basis input
DeclaredFloating(in) ==
  IF in.basis.present /\ in.basis.has_floating THEN in.basis.floating_orbitals ELSE << >>

\* kind names of the structure with one ghost site per floating orbital
AugmentedKindNames(in) ==
  Range(in.sites) \cup { DeclaredFloating(in)[j][1] : j \in 1 .. Len(DeclaredFloating(in)) }

\* a floating orbital is named as a kind of the input structure
GhostCollision(in) ==
  \E j \in 1 .. Len(DeclaredFloating(in)) : DeclaredFloating(in)[j][1] \in Range(in.sites)

BuildFailed == bld.result.status # "ok"

\* a key of the parameters is a reserved keyword or a PAO option
ReservedTranslated ==
  { translate_key(k) :
      k \in { kw.system_name, kw.system_label, kw.number_of_species, kw.number_of_atoms,
              kw.lattice_constant, kw.atomic_coordinates_format, kw.use_tree_timer,
              kw.xml_write, kw.dm_use_save_dm, kw.geometry_must_converge } }
ReservedKey(key) == translate_key(key) \in ReservedTranslated
PaoKey(key) == pao_in(translate_key(key))
ParametersRejected(in) ==
  \E j \in 1 .. Len(in.parameters) :
    ReservedKey(in.parameters[j].key) \/ PaoKey(in.parameters[j].key)

\* the inputs read after the pseudos are valid
OtherInputsValid(in) ==
  /\ ~ParametersRejected(in)
  /\ in.kpoints.present => in.kpoints.has_mesh
  /\ (in.bandskpoints.present /\ in.bandskpoints.has_cell)
       => in.bandskpoints.cell = Cell
  /\ in.neb_input_images.present => in.basis.present

StructureValid(in) == ~GhostCollision(in) /\ AugmentedKindNames(in) = in.pseudos

\* C11: a parameters dictionary with a key that, in whatever spelling,
\* translates to a reserved keyword or is a PAO option makes build fail, with
\* no file written (with the error of the parameter check when the structure
\* and pseudos are valid); a dictionary without such a key never fails the
\* parameter check.
C11_ReservedOrPaoKeyRejected ==
  bld.pc = "done" =>
    /\ ParametersRejected(bld.in) => (BuildFailed /\ bld.result.files = << >>)
    /\ (ParametersRejected(bld.in) /\ StructureValid(bld.in)) =>
         /\ bld.result.status = "InputValidationError"
         /\ bld.result.error \in { "blocked_keyword", "pao_in_parameters" }
    /\ ~ParametersRejected(bld.in) =>
         bld.result.error \notin { "blocked_keyword", "pao_in_parameters" }

C11_Witness ==
  /\ bld.pc = "done"
  /\ bld.in.parameters = << Item(Spell(kw.geometry_must_converge, Style.Shout), StrVal(word.Ry)) >>
  /\ bld.result.error = "blocked_keyword"
  /\ bld.result.files = << >>

\* the errors of the caller's inputs
CallerInputErrors ==
  { "ghost_name_is_structure_kind", "pseudos_kinds_mismatch", "blocked_keyword",
    "pao_in_parameters", "kpoints_not_mesh", "bandskpoints_cell_mismatch" }

\* C12: when build fails with an error of the caller's inputs (ghost name,
\* pseudos, blocked or PAO key, k-points not a mesh, cell of the band
\* k-points), no file has been written in the folder, neither the input file
\* nor an image file.
C12_NoFileOnValidationFailure ==
  (bld.pc = "done" /\ bld.result.error \in CallerInputErrors) => bld.result.files = << >>

C12_Witness ==
  /\ bld.pc = "done"
  /\ bld.in.neb_input_images.present /\ bld.in.neb_input_images.numsteps > 0
  /\ bld.result.error = "bandskpoints_cell_mismatch"
  /\ bld.result.files = << >>

\* the key of the parameters, as last written, that the parameter check
\* stops at
RejectedKeys(in) ==
  { in.parameters[j].key : j \in { i \in 1 .. Len(in.parameters) :
      /\ ReservedKey(in.parameters[i].key) \/ PaoKey(in.parameters[i].key)
      /\ \A k \in i + 1 .. Len(in.parameters) :
           translate_key(in.parameters[k].key) # translate_key(in.parameters[i].key) } }

CollidingNames(in) ==
  { DeclaredFloating(in)[j][1] : j \in 1 .. Len(DeclaredFloating(in)) } \cap Range(in.sites)

\* C13 as stated: the error of every failed validation names the offending
\* item: the blocked key as last written, both sets of the pseudo mismatch,
\* the PAO key, the colliding kind name, the cell of the band k-points.
C13_ErrorNamesOffendingItem ==
  bld.pc = "done" =>
    /\ bld.result.error = "blocked_keyword" =>
         bld.result.named.keys \cap RejectedKeys(bld.in) # {}
    /\ bld.result.error = "pseudos_kinds_mismatch" =>
         /\ bld.result.named.kinds = AugmentedKindNames(bld.in)
         /\ bld.result.named.pseudos = bld.in.pseudos
    /\ bld.result.error = "pao_in_parameters" =>
         bld.result.named.keys \cap RejectedKeys(bld.in) # {}
    /\ bld.result.error = "ghost_name_is_structure_kind" =>
         bld.result.named.kinds \cap CollidingNames(bld.in) # {}
    /\ bld.result.error = "bandskpoints_cell_mismatch" =>
         bld.in.bandskpoints.cell \in bld.result.named.cells

\* the ghost sites of the floating orbitals, in the order of the list
GhostSites(in) == [j \in 1 .. Len(DeclaredFloating(in)) |-> DeclaredFloating(in)[j][1]]

FdfContent ==
  (CHOOSE f \in Range(bld.result.files) : f.name = NameVal(bld.in.options.input_filename)).content

\* the lines of the general parameters: those before the first comment
ParameterLines(content) ==
  LET first == CHOOSE j \in 1 .. Len(content) :
                 /\ "comment" \in DOMAIN content[j]
                 /\ \A k \in 1 .. j - 1 : "comment" \notin DOMAIN content[k]
  IN  SubSeq(content, 1, first - 1)

\* the lines "key value" of a keyword, in any spelling
KeyLines(content, keyword) ==
  LET translated == translate_key(keyword)
  IN  { j \in 1 .. Len(content) :
          /\ "key" \in DOMAIN content[j]
          /\ translate_key(content[j].key) = translated }

\* the blocks of a name
Blocks(content, name) ==
  { j \in 1 .. Len(content) : "block" \in DOMAIN content[j] /\ content[j].block = name }

BlockRows(content, name) == content[CHOOSE j \in Blocks(content, name) : TRUE].rows

\* the entries of the local copy list that copy a pseudo of a kind
PseudoEntries(local_copy_list, kind_name) ==
  { j \in 1 .. Len(local_copy_list) :
      local_copy_list[j][3] \in { kind_name \o ".psf", kind_name \o ".psml" } }

InjectedValue(keyword) ==
  IF keyword \in { kw.system_name, kw.system_label } THEN NameVal(bld.in.options.prefix)
  ELSE IF keyword = kw.number_of_species
    THEN [int |-> Len(BlockRows(FdfContent, "chemicalspecieslabel"))]
  ELSE IF keyword = kw.number_of_atoms
    THEN [int |-> Len(BlockRows(FdfContent, "atomiccoordinatesandatomicspecies"))]
  ELSE IF keyword = kw.lattice_constant THEN StrVal(word.one_Ang)
  ELSE IF keyword = kw.atomic_coordinates_format THEN StrVal(word.Ang)
  ELSE StrVal(word.T)

InjectedKeywords ==
  { kw.system_name, kw.system_label, kw.number_of_species, kw.number_of_atoms, kw.lattice_constant,
    kw.atomic_coordinates_format, kw.geometry_must_converge }

\* the rows of the coordinates block are numbered 1..N and count the ghosts
CoordinateRowsNumbered ==
  LET coords == BlockRows(FdfContent, "atomiccoordinatesandatomicspecies")
  IN  /\ \A j \in 1 .. Len(coords) : coords[j].countatm = j
      /\ Len(coords) = Len(bld.in.sites) + Len(DeclaredFloating(bld.in))

\* C16 as stated: the input file of a successful build holds each injected
\* keyword on exactly one line, with the computed value, whatever the caller
\* supplied.
C16_InjectedKeysExactlyOnce ==
  (bld.pc = "done" /\ ~BuildFailed) =>
    /\ \A k \in InjectedKeywords :
         /\ Cardinality(KeyLines(FdfContent, k)) = 1
         /\ \A j \in KeyLines(FdfContent, k) : FdfContent[j].value = InjectedValue(k)
    /\ CoordinateRowsNumbered

\* the basis dictionary holds a key that translates as the keyword does
InBasis(in, keyword) ==
  \E j \in 1 .. Len(in.basis.items) :
    translate_key(in.basis.items[j].key) = translate_key(keyword)

\* C16 as amended: the lines of the general parameters hold each injected
\* keyword exactly once, with the computed value, whatever parameters the
\* caller supplied; the whole file holds it exactly once unless the basis
\* dictionary, which is written as it is, holds the keyword too.
C16_InjectedKeysOnceAmongParameters ==
  (bld.pc = "done" /\ ~BuildFailed) =>
    /\ \A k \in InjectedKeywords :
         LET lines == ParameterLines(FdfContent)
         IN  /\ Cardinality(KeyLines(lines, k)) = 1
             /\ \A j \in KeyLines(lines, k) : lines[j].value = InjectedValue(k)
             /\ ~InBasis(bld.in, k) => Cardinality(KeyLines(FdfContent, k)) = 1
    /\ CoordinateRowsNumbered

C16_Witness ==
  /\ bld.pc = "done" /\ ~BuildFailed
  /\ Len(bld.in.sites) = 2 /\ Len(DeclaredFloating(bld.in)) = 2
  /\ \E j \in KeyLines(FdfContent, kw.number_of_atoms) : FdfContent[j].value = [int |-> 4]
  /\ \E j \in KeyLines(FdfContent, kw.number_of_species) : FdfContent[j].value = [int |-> 3]

\* C17: a k-point input that is not a mesh makes build fail; with a mesh the
\* input file holds one block kgrid_monkhorst_pack of 3 rows, row i with the
\* mesh number i in column i, 0 in the other two and the offset i in column
\* 4; without k-point input it holds no such block.
C17_KpointsBlock ==
  bld.pc = "done" =>
    /\ (bld.in.kpoints.present /\ ~bld.in.kpoints.has_mesh) => BuildFailed
    /\ (bld.in.kpoints.present /\ ~bld.in.kpoints.has_mesh /\ StructureValid(bld.in)
        /\ ~ParametersRejected(bld.in)) =>
         bld.result.status = "InputValidationError" /\ bld.result.error = "kpoints_not_mesh"
    /\ (bld.in.kpoints.present /\ bld.in.kpoints.has_mesh) =>
         bld.result.error # "kpoints_not_mesh"
    /\ ~BuildFailed =>
         IF bld.in.kpoints.present
           THEN /\ Cardinality(Blocks(FdfContent, "kgrid_monkhorst_pack")) = 1
                /\ LET rows == BlockRows(FdfContent, "kgrid_monkhorst_pack")
                   IN  /\ Len(rows) = 3
                       /\ \A i \in 1 .. 3 :
                            /\ Len(rows[i]) = 4
                            /\ rows[i][4] = bld.in.kpoints.offset[i]
                            /\ \A c \in 1 .. 3 :
                                 rows[i][c] = IF c = i THEN bld.in.kpoints.mesh[i] ELSE 0
           ELSE Blocks(FdfContent, "kgrid_monkhorst_pack") = {}

C17_Witness ==
  /\ bld.pc = "done" /\ ~BuildFailed
  /\ bld.in.kpoints = Kpoints(TRUE, TRUE, <<2, 3, 4>>, <<0, 5, 2>>)
  /\ BlockRows(FdfContent, "kgrid_monkhorst_pack") =
       << <<2, 0, 0, 0>>, <<0, 3, 0, 5>>, <<0, 0, 4, 2>> >>

RECURSIVE SumFrom(_, _)
SumFrom(seq, j) == IF j > Len(seq) THEN 0 ELSE seq[j] + SumFrom(seq, j + 1)

\* C18: with labels the input file of a successful build holds one block
\* BandLines and no block BandPoints, with one row per label in the order of
\* the labels; the first row has multiplicity 1, each later row its index
\* minus the index of the label before it, so the multiplicities after the
\* first add up to the last index minus the first; the indices 0, 2, 5 give
\* 1, 2, 3. Without labels it holds one block BandPoints with one row per
\* k-point and no block BandLines.
C18_BandPathGapEncoding ==
  (bld.pc = "done" /\ ~BuildFailed /\ bld.in.bandskpoints.present) =>
    LET labels == bld.in.bandskpoints.labels
        n == Len(labels)
    IN  IF bld.in.bandskpoints.has_labels
          THEN /\ Cardinality(Blocks(FdfContent, "BandLines")) = 1
               /\ Blocks(FdfContent, "BandPoints") = {}
               /\ LET rows == BlockRows(FdfContent, "BandLines")
                      mult == [j \in 1 .. Len(rows) |-> rows[j].multiplicity]
                  IN  /\ Len(rows) = n
                      /\ \A j \in 1 .. n :
                           /\ rows[j].label = labels[j][2]
                           /\ rows[j].kpoint = get_kpoints(bld.in.bandskpoints)[labels[j][1] + 1]
                           /\ rows[j].multiplicity =
                                IF j = 1 THEN 1 ELSE labels[j][1] - labels[j - 1][1]
                      /\ n > 0 => SumFrom(mult, 2) = labels[n][1] - labels[1][1]
                      /\ [j \in 1 .. n |-> labels[j][1]] = <<0, 2, 5>> => mult = <<1, 2, 3>>
          ELSE /\ Cardinality(Blocks(FdfContent, "BandPoints")) = 1
               /\ Blocks(FdfContent, "BandLines") = {}
               /\ Len(BlockRows(FdfContent, "BandPoints")) = bld.in.bandskpoints.nkpts

C18_Witness ==
  /\ bld.pc = "done" /\ ~BuildFailed
  /\ bld.in.bandskpoints.has_labels
  /\ bld.in.bandskpoints.labels = << <<0, "k0">>, <<2, "k2">>, <<5, "k5">> >>
  /\ \A j \in 1 .. 3 : BlockRows(FdfContent, "BandLines")[j].multiplicity = j

\* the lines that set the scale of the band k-points
ScaleLines == KeyLines(FdfContent, kw.BandLinesScale)

\* C19 as stated: a cell of the band k-points that differs from the cell of
\* the structure makes build fail; with the same cell or none (the other
\* inputs being valid, a variable-cell request among them) build succeeds and
\* the input file holds the line BandLinesScale ReciprocalLatticeVectors
\* exactly once, and no other scale; a variable-cell request only adds a
\* warning.
C19_BandScaleExactlyOnce ==
  (bld.pc = "done" /\ bld.in.bandskpoints.present) =>
    LET b == bld.in.bandskpoints
        mismatch == b.has_cell /\ b.cell # Cell
    IN  /\ mismatch => BuildFailed
        /\ (~mismatch /\ StructureValid(bld.in) /\ OtherInputsValid(bld.in)) => ~BuildFailed
        /\ ~BuildFailed =>
             /\ Cardinality(ScaleLines) = 1
             /\ \A j \in ScaleLines : FdfContent[j].value = StrVal(word.ReciprocalLatticeVectors)

\* the one entry of the remote copy list of a restart
DensityMatrixCopy ==
  << "computer-uuid", "/scratch/parent/./*.DM", "./" >>

InputsAccepted(in) ==
  /\ StructureValid(in)
  /\ ~ParametersRejected(in)
  /\ in.kpoints.present => in.kpoints.has_mesh
  /\ (in.bandskpoints.present /\ in.bandskpoints.has_cell) => in.bandskpoints.cell = Cell

\* the image files written in the folder: the files named from the prefix
ImageFiles == { f \in Range(bld.result.files) : "chars" \in DOMAIN f.name }

\* the positions of the ghosts, in the order of the floating_orbitals list
GhostPositions(in) == [j \in 1 .. Len(DeclaredFloating(in)) |-> DeclaredFloating(in)[j][3]]

\* C21 as stated: with a path of M images and inputs that pass the checks,
\* with or without a basis and floating orbitals, build writes exactly M image
\* files named prefix, index, ".xyz" for the indexes 0..M-1; each holds its
\* count, a separator and as many positions as the count, the count being the
\* number of sites plus the number of ghosts, the positions of the ghosts
\* coming last, the same in every image.
C21_ImageFilesWritten ==
  (bld.pc = "done" /\ bld.in.neb_input_images.present /\ InputsAccepted(bld.in)) =>
    /\ ~BuildFailed
    /\ Cardinality(ImageFiles) = bld.in.neb_input_images.numsteps
    /\ \A i \in 0 .. bld.in.neb_input_images.numsteps - 1 :
         \E f \in ImageFiles :
           /\ f.name = StrVal(bld.in.options.neb_xyz_prefix \o str(i) \o word.xyz)
           /\ f.content.count = Len(f.content.positions)
           /\ f.content.count = Len(bld.in.sites) + Len(DeclaredFloating(bld.in))
           /\ SubSeq(f.content.positions, Len(bld.in.sites) + 1, f.content.count)
                = GhostPositions(bld.in)

\* C22 as stated: the retrieve list of a successful build holds the output
\* file, prefix.xml, time.json and MESSAGES; prefix.bands exactly when band
\* k-points are given; with a path of images the pattern of the image files
\* and the results file, without it neither; the entries of
\* ADDITIONAL_RETRIEVE_LIST come last.
C22_RetrieveList ==
  (bld.pc = "done" /\ ~BuildFailed) =>
    LET rl == bld.result.retrieve_list
        extra == bld.in.additional_retrieve_list
        results == NameVal(bld.in.options.neb_results_file)
    IN  /\ { NameVal(bld.in.options.output_filename),
             NameVal(bld.in.options.prefix \o ".xml"),
             NameVal("time.json"), NameVal("MESSAGES") } \subseteq Range(rl)
        /\ NameVal(bld.in.options.prefix \o ".bands") \in Range(rl)
             <=> bld.in.bandskpoints.present
        /\ StrVal(word.image_xyz) \in Range(rl) <=> bld.in.neb_input_images.present
        /\ results \in Range(rl) <=> bld.in.neb_input_images.present
        /\ Len(rl) >= Len(extra)
        /\ SubSeq(rl, Len(rl) - Len(extra) + 1, Len(rl)) = extra

\* fnmatch: the name matches the pattern, "*" standing for any characters
RECURSIVE fnmatch(_, _)
fnmatch(name, pat) ==
  IF pat = << >> THEN name = << >>
  ELSE IF Head(pat) = "*"
    THEN fnmatch(name, Tail(pat)) \/ (name # << >> /\ fnmatch(Tail(name), pat))
    ELSE name # << >> /\ Head(name) = Head(pat) /\ fnmatch(Tail(name), Tail(pat))

\* C30 as stated: whatever the prefix of the image files, every image file
\* written is matched by an entry of the retrieve list.
C30_ImageFilesRetrieved ==
  (bld.pc = "done" /\ ~BuildFailed /\ bld.in.neb_input_images.present) =>
    \A f \in ImageFiles :
      \E j \in 1 .. Len(bld.result.retrieve_list) :
        LET e == bld.result.retrieve_list[j]
        IN  "chars" \in DOMAIN e /\ fnmatch(f.name.chars, e.chars)

-----------------------------------------------------------------------------
(* utils/structures.py: functions on one structure *)

\* the radius of the avoidance cylinder
AVOIDANCE_RADIUS == 1

\* exchange_sites_in_structure with the sites exchanged whole, kind names too
exchange_sites_in_structure_WholeSites(s, i1, i2) ==
  LET sites == s.sites
      placed == [sites EXCEPT ![i1 + 1] = sites[i2 + 1]]
  IN  [s EXCEPT !.sites = [placed EXCEPT ![i2 + 1] = sites[i1 + 1]]]

\* exchange_sites_in_structure(s, i1, i2): s.sites is a new list of the sites
\* of s; the clone t of s gets the sites of that list
exchange_sites_in_structure(s, i1, i2) ==
  LET sites == s.sites
      s1 == sites[i1 + 1]
      s2 == sites[i2 + 1]
      p1 == s1.position
      p2 == s2.position
      n1 == [kind_name |-> s1.kind_name, position |-> p2]
      n2 == [kind_name |-> s2.kind_name, position |-> p1]
      placed == [sites EXCEPT ![i1 + 1] = n1]
  IN  [s EXCEPT !.sites = [placed EXCEPT ![i2 + 1] = n2]]

\* find_intermediate_structure that leaves the second atom where it is
find_intermediate_structure_SecondUnmoved(s, i1, intermediate_position, i2) ==
  [s EXCEPT !.sites[i1 + 1].position = intermediate_position]

\* find_intermediate_structure(s, i1, intermediate_position, i2): i2 is << >>
\* for None and << index >> otherwise; the position of the second atom is read
\* from the list after the first atom was replaced in it
find_intermediate_structure(s, i1, intermediate_position, i2) ==
  LET i1_path_position == intermediate_position
      sites == s.sites
      p1 == sites[i1 + 1].position
      s1 == sites[i1 + 1]
      n1 == [kind_name |-> s1.kind_name, position |-> i1_path_position]
      moved == [sites EXCEPT ![i1 + 1] = n1]
      p2 == moved[i2[1] + 1].position
      p_wrt_p1 == Sub(i1_path_position, p1)
      i2_path_position == Sub(p2, p_wrt_p1)
      s2 == moved[i2[1] + 1]
      n2 == [kind_name |-> s2.kind_name, position |-> i2_path_position]
  IN  [s EXCEPT !.sites = IF i2 = << >> THEN moved ELSE [moved EXCEPT ![i2[1] + 1] = n2]]

\* compute_mid_path_position(s, i1, i2, migration_direction), up to the
\* coordinates of the point, as find_mid_path_position
compute_mid_path_position(s, i1, i2, migration_direction) ==
  LET cart_direction == MatMul(s.cell, migration_direction)
      p1 == s.sites[i1 + 1].position
      p2 == s.sites[i2 + 1].position
      d == Sub(p2, p1)
      cross_product == Cross(d, cart_direction)
      xx == Dot(cross_product, cross_product)
      nn == Dot(cart_direction, cart_direction) * Dot(d, d)
  IN  IF nn = 0
        THEN "NaN"
        ELSE IF xx <= (nn - 1) \div 10000
          THEN "None"
          ELSE "Point"

\* path_mid_point = p1 + 0.5*dmod*u + AVOIDANCE_RADIUS * u_perp, kept exact:
\* twice p1 + 0.5 d, the radius, and the vector c_perp scaled by d.d, whose
\* unit vector is u_perp
path_mid_point(p1, p2, cart_direction) ==
  LET d == Sub(p2, p1)
  IN  [twice |-> Add(p1, p2),
       radius |-> AVOIDANCE_RADIUS,
       along |-> << Dot(d, d) * cart_direction[1] - Dot(d, cart_direction) * d[1],
                    Dot(d, d) * cart_direction[2] - Dot(d, cart_direction) * d[2],
                    Dot(d, d) * cart_direction[3] - Dot(d, cart_direction) * d[3] >>]

\* the calls examined: structures of NSites sites (on a line, off a line, two
\* of them at the same place), site indexes, positions and directions
GeoCalls ==
  LET Position(family, j) ==
        IF family = "line" THEN HostPos(j)
        ELSE IF family = "skew" THEN << j, j * j, 1 >>
        ELSE << 2 * (j \div 2), 3, 1 >>
      Structures ==
        { [cell |-> Cell,
           sites |-> [j \in 1 .. NSites |->
                        [kind_name |-> IF j % 2 = 1 THEN "A" ELSE "B",
                         position |-> Position(f, j - 1)]]] :
            f \in { "line", "skew", "pairs" } }
      Positions == { <<0, 0, 0>>, <<1, 1, 0>>, <<3, 0, 2>> }
      Call(op, s, i1, i2, position, direction) ==
        [pc |-> "ready", op |-> op, given |-> s, s |-> s, i1 |-> i1, i2 |-> i2,
         position |-> position, direction |-> direction, first |-> << >>, result |-> << >>]
  IN  { Call("exchange", s, i1, << i2 >>, <<0, 0, 0>>, <<0, 0, 0>>) :
          s \in Structures, i1 \in SiteIndexes, i2 \in SiteIndexes }
      \cup { Call("intermediate", s, i1, i2, p, <<0, 0, 0>>) :
               s \in Structures, i1 \in SiteIndexes,
               i2 \in { << >> } \cup { << j >> : j \in SiteIndexes }, p \in Positions }
      \cup { Call("mid", s, i1, << i2 >>, <<0, 0, 0>>, c) :
               s \in Structures, i1 \in SiteIndexes, i2 \in SiteIndexes,
               c \in Directions \cup { <<0, 0, 1>>, <<1, 1, 1>>, <<1, 0, 200>> } }

\* exchange_sites_in_structure is called on s, then on the structure it returned
ExchangeSites ==
  /\ geo.op = "exchange" /\ geo.pc \in { "ready", "done" }
  /\ geo' = IF geo.pc = "ready"
              THEN [geo EXCEPT !.pc = "done",
                      !.result = exchange_sites_in_structure(geo.s, geo.i1, geo.i2[1])]
              ELSE [geo EXCEPT !.pc = "again", !.first = geo.result,
                      !.result = exchange_sites_in_structure(geo.result, geo.i1, geo.i2[1])]
  /\ UNCHANGED <<wfvars, bld, prs>>

FindIntermediate ==
  /\ geo.op = "intermediate" /\ geo.pc = "ready"
  /\ geo' = [geo EXCEPT !.pc = "done",
               !.result = find_intermediate_structure(geo.s, geo.i1, geo.position, geo.i2)]
  /\ UNCHANGED <<wfvars, bld, prs>>

\* compute_mid_path_position on two sites and find_mid_path_position on the
\* positions of these sites
MidPathPosition ==
  /\ geo.op = "mid" /\ geo.pc = "ready"
  /\ LET pos1 == geo.s.sites[geo.i1 + 1].position
         pos2 == geo.s.sites[geo.i2[1] + 1].position
         point == path_mid_point(pos1, pos2, MatMul(geo.s.cell, geo.direction))
     IN  geo' = [geo EXCEPT !.pc = "done",
                   !.first = [tag |-> compute_mid_path_position(geo.s, geo.i1, geo.i2[1],
                                                                geo.direction),
                              point |-> point],
                   !.result = [tag |-> find_mid_path_position(pos1, pos2, geo.direction),
                               point |-> point]]
  /\ UNCHANGED <<wfvars, bld, prs>>

GeoInit ==
  /\ kind = "NEB"
  /\ inp = Input(0, FALSE, FALSE, <<0, 0, 0>>, 0, 0, TRUE, NoPath)
  /\ pc = "relax_initial"
  /\ ctx = NoCtx
  /\ awaiting = {}
  /\ relax = [w \in {"initial", "final"} |-> NoRelax]
  /\ calc = NoCalc
  /\ exit = NoExit
  /\ out = NoOut
  /\ bpc = "none"
  /\ bin = NoPath
  /\ bawaiting = {}
  /\ bexit = NoExit
  /\ bout = NoOut
  /\ log = {}
  /\ bld = BldIdle
  /\ geo \in GeoCalls
  /\ prs = PrsIdle

GeoNext == ExchangeSites \/ FindIntermediate \/ MidPathPosition

SpecGeom == GeoInit /\ [][GeoNext]_vars

-----------------------------------------------------------------------------
(* Claims on utils/structures.py *)

\* the structures of a finished call differ only in positions, and only at the
\* indexes of `moved`
OnlyMoved(t, s, moved) ==
  /\ t.cell = s.cell
  /\ Len(t.sites) = Len(s.sites)
  /\ \A k \in 1 .. Len(s.sites) :
       /\ t.sites[k].kind_name = s.sites[k].kind_name
       /\ (k - 1) \notin moved => t.sites[k].position = s.sites[k].position

IntermediateOfTwo ==
  /\ geo.pc = "done" /\ geo.op = "intermediate"
  /\ geo.i2 # << >> /\ geo.i2 # << geo.i1 >>

\* C23 as stated: site j is at the mirror image of new_position about the
\* original position of site i, the sum of the two positions is kept, the
\* kind names and the other sites are unchanged and s is not modified
C23_MirrorAboutFirst ==
  IntermediateOfTwo =>
    LET pi == geo.given.sites[geo.i1 + 1].position
        pj == geo.given.sites[geo.i2[1] + 1].position
        ti == geo.result.sites[geo.i1 + 1].position
        tj == geo.result.sites[geo.i2[1] + 1].position
    IN  /\ ti = geo.position
        /\ tj = Sub(Add(pi, pi), geo.position)
        /\ Add(ti, tj) = Add(pi, pj)
        /\ OnlyMoved(geo.result, geo.given, { geo.i1, geo.i2[1] })
        /\ geo.s = geo.given

\* C23: find_intermediate_structure(s, i, new_position, j) with j given and
\* j # i returns a structure in which site i is at new_position and site j is
\* displaced from its original position by the opposite of the displacement of
\* site i, so that the sum of the two positions is the same as in s; the kind
\* names at every index and the positions of all other sites are unchanged,
\* and s is not modified
C23_OppositeDisplacement ==
  IntermediateOfTwo =>
    LET pi == geo.given.sites[geo.i1 + 1].position
        pj == geo.given.sites[geo.i2[1] + 1].position
        ti == geo.result.sites[geo.i1 + 1].position
        tj == geo.result.sites[geo.i2[1] + 1].position
    IN  /\ ti = geo.position
        /\ tj = Sub(pj, Sub(geo.position, pi))
        /\ Add(ti, tj) = Add(pi, pj)
        /\ OnlyMoved(geo.result, geo.given, { geo.i1, geo.i2[1] })
        /\ geo.s = geo.given

\* a call that moved both atoms, the second one away from the mirror image
C23_Witness ==
  /\ IntermediateOfTwo
  /\ geo.result.sites[geo.i1 + 1].position # geo.given.sites[geo.i1 + 1].position
  /\ geo.result.sites[geo.i2[1] + 1].position # geo.given.sites[geo.i2[1] + 1].position
  /\ geo.result.sites[geo.i2[1] + 1].position
       # Sub(Add(geo.given.sites[geo.i1 + 1].position,
                 geo.given.sites[geo.i1 + 1].position), geo.position)

\* C24: exchange_sites_in_structure(s, i, j) returns a structure with the cell,
\* the number of sites and the kind name at every index of s, in which site i
\* has the position site j had and site j the position site i had, every other
\* position unchanged, s not modified; a second call with the same (i, j) on
\* the result gives back the original positions, and i = j gives a copy of s
C24_ExchangeSites ==
  geo.op = "exchange" =>
    /\ geo.s = geo.given
    /\ geo.pc = "done" =>
         /\ OnlyMoved(geo.result, geo.given, { geo.i1, geo.i2[1] })
         /\ geo.result.sites[geo.i1 + 1].position = geo.given.sites[geo.i2[1] + 1].position
         /\ geo.result.sites[geo.i2[1] + 1].position = geo.given.sites[geo.i1 + 1].position
         /\ geo.i1 = geo.i2[1] => geo.result = geo.given
    /\ geo.pc = "again" =>
         /\ OnlyMoved(geo.first, geo.given, { geo.i1, geo.i2[1] })
         /\ \A k \in 1 .. Len(geo.given.sites) :
              geo.result.sites[k].position = geo.given.sites[k].position
         /\ geo.result = geo.given

\* two sites of different kinds at different places were exchanged, and
\* exchanged back
C24_Witness ==
  /\ geo.op = "exchange" /\ geo.pc = "again"
  /\ geo.i1 # geo.i2[1]
  /\ geo.given.sites[geo.i1 + 1].kind_name # geo.given.sites[geo.i2[1] + 1].kind_name
  /\ geo.first.sites[geo.i1 + 1].position # geo.given.sites[geo.i1 + 1].position
  /\ geo.first.sites[geo.i1 + 1].position = geo.given.sites[geo.i2[1] + 1].position

\* C25 as stated: compute_mid_path_position and find_mid_path_position give
\* the same result; with d the vector between the two positions and c the
\* Cartesian migration direction the result is none exactly when
\* |d x c| / (|d| |c|) < 1e-2, and otherwise a point, the segment midpoint
\* displaced by a vector perpendicular to d, in the plane of d and c, of
\* length AVOIDANCE_RADIUS = 1.0 (the quotient is compared by its square,
\* |d x c|^2 < 1e-4 |d|^2 |c|^2)
C25_MidPathPosition ==
  (geo.op = "mid" /\ geo.pc = "done") =>
    LET d == Sub(geo.s.sites[geo.i2[1] + 1].position, geo.s.sites[geo.i1 + 1].position)
        c == MatMul(geo.s.cell, geo.direction)
        x == Cross(d, c)
        near == /\ Dot(d, d) * Dot(c, c) # 0
                /\ Dot(x, x) < (Dot(d, d) * Dot(c, c) + 9999) \div 10000
        at == geo.result.point
    IN  /\ geo.first = geo.result
        /\ geo.result.tag = "None" <=> near
        /\ ~near =>
             /\ geo.result.tag = "Point"
             /\ at.twice = Add(geo.s.sites[geo.i1 + 1].position,
                               geo.s.sites[geo.i2[1] + 1].position)
             /\ at.along # <<0, 0, 0>>
             /\ Dot(at.along, d) = 0
             /\ Dot(at.along, x) = 0
             /\ at.radius = 1

-----------------------------------------------------------------------------
(* Claims on the starting paths and on the ends of the work chains *)

\* C26: every starting path a path-building step stored in the context
\* (generate_starting_path of NEBWorkChain, prepare_initial_path of the two
\* barrier work chains, plain and two-leg) carries the 'kinds' attribute, the
\* kind list of the relaxed initial structure
C26_StartingPathCarriesKinds ==
  ctx.path # NoPath => ctx.path.kinds

\* C28: in both cases of the optional input interpolation_method of
\* NEBWorkChain, once both endpoint relaxations finished ok the step
\* generate_starting_path stores a path of n_images + 2 images in the context
\* and the step run_neb is reached
C28_StartingPathInBothCases ==
  [][(/\ kind = "NEB" /\ pc = "generate_starting_path" /\ pc' # pc
      /\ is_finished_ok(relax["initial"]) /\ is_finished_ok(relax["final"]))
       => (pc' = "run_neb" /\ numsteps(ctx'.path) = inp.n_images + 2)]_vars

\* the exit codes each class declares
DeclaredExitCodes ==
  CASE kind = "NEB" -> { NEB_ERROR_MAIN_WC, NEB_ERROR_FINAL_WC }
    [] kind = "BaseNEB" -> { B_ERROR_PATH_SPEC, B_ERROR_NEB_CALC }
    [] kind = "Interstitial" -> { IB_ERROR_MAIN_WC, IB_ERROR_CONFIG, IB_ERROR_NEB_WK }
    [] kind = "Vacancy" -> { VEB_ERROR_MAIN_WC, VEB_ERROR_CONFIG, VEB_ERROR_NEB_WK }

\* Done, or Failed with a declared exit code
EndedAsDeclared ==
  /\ WfTerminated
  /\ kind # "BaseNEB" => pc = "finished"
  /\ WfExit = Success \/ WfExit \in DeclaredExitCodes

\* the engine runs the next step of the outline as soon as the awaited
\* sub-processes have terminated, and every submitted sub-process terminates
SpecLive == Spec /\ WF_vars(Next)

\* C29: when every submitted sub-job eventually finishes, every run of each
\* work chain, for every combination of its inputs, eventually reaches a
\* terminal state that is Done or Failed with one of the declared exit codes
\* of its class; it never ends in an exception and never waits forever
C29_EveryRunEndsAsDeclared ==
  (~WfTerminated) ~> EndedAsDeclared

-----------------------------------------------------------------------------
(* SiestaCalculation: the exit codes, and the parsing of the retrieved files *)

\* the table of exit codes with two failures under one status and message
exit_codes_Shared ==
  [BANDS_PARSE_FAIL |->
     [status |-> 453, message |-> "Failure while parsing the bands file"],
   BANDS_FILE_NOT_PRODUCED |->
     [status |-> 453, message |-> "Failure while parsing the bands file"],
   SCF_NOT_CONV |->
     [status |-> 450, message |-> "Calculation did not reach scf convergence!"],
   GEOM_NOT_CONV |->
     [status |-> 451, message |-> "Calculation did not reach geometry convergence!"],
   UNEXPECTED_TERMINATION |->
     [status |-> 350, message |-> "Statement \"Job completed\" not detected, unknown error"],
   SPLIT_NORM |->
     [status |-> 449, message |-> "Split_norm parameter too small"],
   BASIS_POLARIZ |->
     [status |-> 448, message |-> "Problems in the polarization of a basis element"],
   NO_NEB_XYZ_FILES |->
     [status |-> 440, message |-> "No .xyz files found after NEB calculation"]]

\* spec.exit_code(status, label, message) of SiestaCalculation.define
exit_codes ==
  [BANDS_PARSE_FAIL |->
     [status |-> 453, message |-> "Failure while parsing the bands file"],
   BANDS_FILE_NOT_PRODUCED |->
     [status |-> 452, message |-> "Bands analysis was requested, but file is not present"],
   SCF_NOT_CONV |->
     [status |-> 450, message |-> "Calculation did not reach scf convergence!"],
   GEOM_NOT_CONV |->
     [status |-> 451, message |-> "Calculation did not reach geometry convergence!"],
   UNEXPECTED_TERMINATION |->
     [status |-> 350, message |-> "Statement \"Job completed\" not detected, unknown error"],
   SPLIT_NORM |->
     [status |-> 449, message |-> "Split_norm parameter too small"],
   BASIS_POLARIZ |->
     [status |-> 448, message |-> "Problems in the polarization of a basis element"],
   NO_NEB_XYZ_FILES |->
     [status |-> 440, message |-> "No .xyz files found after NEB calculation"]]

\* what a calculation left behind: the MESSAGES file (absent, empty, or with
\* its last statement), the bands file when bands were requested, the image
\* files when the run was a NEB run
Retrieved ==
  [messages : { "absent", "empty", "completed", "scf_not_conv", "geom_not_conv" },
   bands_requested : BOOLEAN,
   bands_file : { "absent", "truncated", "ok" },
   neb : BOOLEAN,
   xyz_files : BOOLEAN]

\* the parser on the retrieved files: output_parameters (and the other results
\* of the XML file) are attached first, then the failures found decide the
\* exit code; with several failures at once the code is that of one of them
parse(r) ==
  LET found ==
        (IF r.messages = "scf_not_conv" THEN { "SCF_NOT_CONV" } ELSE {})
        \cup (IF r.messages = "geom_not_conv" THEN { "GEOM_NOT_CONV" } ELSE {})
        \cup (IF r.messages = "empty" THEN { "UNEXPECTED_TERMINATION" } ELSE {})
        \cup (IF r.bands_requested /\ r.bands_file = "truncated"
                THEN { "BANDS_PARSE_FAIL" } ELSE {})
        \cup (IF r.bands_requested /\ r.bands_file = "absent"
                THEN { "BANDS_FILE_NOT_PRODUCED" } ELSE {})
        \cup (IF r.neb /\ ~r.xyz_files THEN { "NO_NEB_XYZ_FILES" } ELSE {})
      results ==
        { "output_parameters", "output_structure", "forces_and_stress" }
        \cup (IF r.bands_requested /\ r.bands_file = "ok" THEN { "bands" } ELSE {})
        \cup (IF r.neb /\ r.xyz_files THEN { "neb_output_images" } ELSE {})
  IN  IF found = {}
        THEN { [is_finished |-> TRUE, exception |-> FALSE, exit_status |-> 0,
                exit_message |-> "", results |-> results] }
        ELSE { [is_finished |-> TRUE, exception |-> FALSE,
                exit_status |-> exit_codes[f].status,
                exit_message |-> exit_codes[f].message, results |-> results] :
                 f \in found }

\* the engine parses the retrieved files of the calculation
Parse ==
  /\ prs.pc = "retrieved"
  /\ \E o \in parse(prs.retrieved) :
       prs' = [prs EXCEPT !.pc = "parsed", !.calcfunction = o]
  /\ UNCHANGED <<wfvars, bld, geo>>

ParseInit ==
  /\ kind = "NEB"
  /\ inp = Input(0, FALSE, FALSE, <<0, 0, 0>>, 0, 0, TRUE, NoPath)
  /\ pc = "relax_initial"
  /\ ctx = NoCtx
  /\ awaiting = {}
  /\ relax = [w \in {"initial", "final"} |-> NoRelax]
  /\ calc = NoCalc
  /\ exit = NoExit
  /\ out = NoOut
  /\ bpc = "none"
  /\ bin = NoPath
  /\ bawaiting = {}
  /\ bexit = NoExit
  /\ bout = NoOut
  /\ log = {}
  /\ bld = BldIdle
  /\ geo = GeoIdle
  /\ \E r \in Retrieved : prs = [pc |-> "retrieved", retrieved |-> r, calcfunction |-> << >>]

ParseNext == Parse

SpecParse == ParseInit /\ [][ParseNext]_vars

-----------------------------------------------------------------------------
(* Claim on the failures of the external code *)

\* the failure kinds of the claim and the retrieved files showing each alone
FailureCases ==
  { << "SCF_NOT_CONV", "scf_not_conv", FALSE, "ok", FALSE >>,
    << "GEOM_NOT_CONV", "geom_not_conv", FALSE, "ok", FALSE >>,
    << "UNEXPECTED_TERMINATION", "empty", FALSE, "ok", FALSE >>,
    << "BANDS_PARSE_FAIL", "completed", TRUE, "truncated", FALSE >>,
    << "BANDS_FILE_NOT_PRODUCED", "completed", TRUE, "absent", FALSE >>,
    << "NO_NEB_XYZ_FILES", "completed", FALSE, "ok", TRUE >> }

\* the retrieved files show the failure of case c
Shows(r, c) ==
  /\ c[2] # "completed" => r.messages = c[2]
  /\ c[3] => (r.bands_requested /\ r.bands_file = c[4])
  /\ c[5] => (r.neb /\ ~r.xyz_files)

====
